---- MODULE Spec2Model ----
(***************************************************************************)
(* Read-only SQL gatekeeper of go-readonly-mcp-sql-db.                     *)
(*                                                                         *)
(* A Go string is modelled as a sequence of one-character strings (the     *)
(* model stays inside ASCII, where a byte, a rune and a character          *)
(* coincide).  An error value is a sequence of text pieces, nil being the  *)
(* empty sequence, so that fmt.Errorf / fmt.Sprintf are concatenations.    *)
(***************************************************************************)
EXTENDS Integers, Sequences, FiniteSets, TLC

(***************************************************************************)
(* Characters and character classes                                        *)
(***************************************************************************)
LowerSeq == <<"a","b","c","d","e","f","g","h","i","j","k","l","m",
              "n","o","p","q","r","s","t","u","v","w","x","y","z">>
UpperSeq == <<"A","B","C","D","E","F","G","H","I","J","K","L","M",
              "N","O","P","Q","R","S","T","U","V","W","X","Y","Z">>

LowerSet == {LowerSeq[k] : k \in DOMAIN LowerSeq}
UpperSet == {UpperSeq[k] : k \in DOMAIN UpperSeq}
DigitSet == {"0","1","2","3","4","5","6","7","8","9"}

\* The vertical tab and the backtick cannot be written in a TLA+ string, so
\* each is a named one-character value.
VT == "<VT>"
BT == "<BT>"

\* unicode.IsSpace on ASCII, used by strings.TrimSpace.
TrimSpaceSet == {" ", "\t", "\n", VT, "\f", "\r"}

\* \s of the regexp package (RE2): [\t\n\f\r ].
ReSpaceSet == {" ", "\t", "\n", "\f", "\r"}

\* The class [a-zA-Z_] of the keyword patterns.
IdentSet == LowerSet \cup UpperSet \cup {"_"}

\* \w of the regexp package: [0-9A-Za-z_]; \b is a boundary between \w and
\* a non-\w character or a string edge.
WordSet == IdentSet \cup DigitSet

UpperOf == [c \in LowerSet |-> UpperSeq[CHOOSE k \in DOMAIN LowerSeq : LowerSeq[k] = c]]

\* strings.ToUpper, one character.
ToUpperChar(c) == IF c \in LowerSet THEN UpperOf[c] ELSE c

\* strings.ToUpper.
ToUpper(s) == [k \in 1..Len(s) |-> ToUpperChar(s[k])]

(***************************************************************************)
(* String helpers of package strings                                       *)
(***************************************************************************)
\* s[from..to] with 1-based inclusive indices, empty when from > to.
Slice(s, from, to) == [k \in 1..(to - from + 1) |-> s[from + k - 1]]

\* w occurs in s at position p.
OccursAt(s, p, w) ==
    /\ p >= 1
    /\ p + Len(w) - 1 <= Len(s)
    /\ \A k \in 1..Len(w) : s[p + k - 1] = w[k]

\* strings.HasPrefix.
HasPrefix(s, w) == OccursAt(s, 1, w)

\* strings.Index(s[from:], w) as the 1-based position in s of the first
\* occurrence at or after from, 0 when there is none.
IndexFrom(s, from, w) ==
    LET hits == {p \in from..(Len(s) - Len(w) + 1) : OccursAt(s, p, w)}
    IN  IF hits = {} THEN 0 ELSE CHOOSE p \in hits : \A r \in hits : p <= r

\* strings.Contains.
Contains(s, w) == IndexFrom(s, 1, w) # 0

\* strings.TrimSpace.
TrimSpace(s) ==
    LET keep == {k \in 1..Len(s) : s[k] \notin TrimSpaceSet}
    IN  IF keep = {} THEN <<>>
        ELSE LET lo == CHOOSE k \in keep : \A r \in keep : k <= r
                 hi == CHOOSE k \in keep : \A r \in keep : k >= r
             IN  Slice(s, lo, hi)

Max(a, b) == IF a >= b THEN a ELSE b

(***************************************************************************)
(* Lexical strippers.  A scan position is a 1-based index i (the Go cursor *)
(* plus one); every recognizer returns the cursor after the span it        *)
(* consumed and the text it wrote to the result builder.                   *)
(***************************************************************************)
Placeholder == <<"'", "'">>
DQPlaceholder == <<"\"", "\"">>

\* A line comment that takes its newline with it.
ScanLineCommentNewline(sql, i) ==
    LET nl == IndexFrom(sql, i, <<"\n">>)
    IN  [next |-> IF nl = 0 THEN Len(sql) + 1 ELSE nl + 1, out |-> <<" ">>]

\* for i < n && sql[i] != '\n' { i++ }; result.WriteByte(' ')
ScanLineComment(sql, i) ==
    LET nl == IndexFrom(sql, i, <<"\n">>)
    IN  [next |-> IF nl = 0 THEN Len(sql) + 1 ELSE nl, out |-> <<" ">>]

\* A block comment that is copied to the result instead of blanked.
ScanBlockCommentKept(sql, i) ==
    LET close == IndexFrom(sql, i + 2, <<"*", "/">>)
        e     == IF close = 0 THEN Max(i + 2, Len(sql)) + 2 ELSE close + 2
    IN  [next |-> e, out |-> Slice(sql, i, e - 1)]

\* A block comment whose missing close stops the scan one character short
\* of the end of the input.
ScanBlockCommentShort(sql, i) ==
    LET close == IndexFrom(sql, i + 2, <<"*", "/">>)
    IN  [next |-> IF close = 0 THEN Max(i + 2, Len(sql)) ELSE close + 2,
         out  |-> <<" ">>]

\* i += 2; for i+1 < n && !(sql[i] == '*' && sql[i+1] == '/') { i++ }; i += 2
ScanBlockComment(sql, i) ==
    LET close == IndexFrom(sql, i + 2, <<"*", "/">>)
    IN  [next |-> IF close = 0 THEN Max(i + 2, Len(sql)) + 2 ELSE close + 2,
         out  |-> <<" ">>]

\* The inner loop of a quoted span without the doubled-quote test: the
\* first quote ends the span.
RECURSIVE QuotedEndFirstQuote(_, _, _, _)
QuotedEndFirstQuote(sql, j, q, backslash) ==
    IF j > Len(sql) THEN j
    ELSE IF sql[j] = q
         THEN j + 1
         ELSE IF backslash /\ sql[j] = "\\" /\ j + 1 <= Len(sql)
              THEN QuotedEndFirstQuote(sql, j + 2, q, backslash)
              ELSE QuotedEndFirstQuote(sql, j + 1, q, backslash)

\* The inner loop of a quoted span opened by q, entered with the cursor j
\* after the opening quote: a doubled quote never ends the span, and with
\* backslash = TRUE a backslash skips the character after it.
RECURSIVE QuotedEnd(_, _, _, _)
QuotedEnd(sql, j, q, backslash) ==
    IF j > Len(sql) THEN j
    ELSE IF sql[j] = q
         THEN IF j + 1 <= Len(sql) /\ sql[j + 1] = q
              THEN QuotedEnd(sql, j + 2, q, backslash)
              ELSE j + 1
         ELSE IF backslash /\ sql[j] = "\\" /\ j + 1 <= Len(sql)
              THEN QuotedEnd(sql, j + 2, q, backslash)
              ELSE QuotedEnd(sql, j + 1, q, backslash)

\* A string literal whose quotes are dropped and whose content is written.
ScanStringUnquoted(sql, i, q, backslash, placeholder) ==
    LET e == QuotedEnd(sql, i + 1, q, backslash)
    IN  [next |-> e, out |-> Slice(sql, i + 1, e - 2)]

\* A quoted string literal: consumed, one placeholder written.
ScanString(sql, i, q, backslash, placeholder) ==
    [next |-> QuotedEnd(sql, i + 1, q, backslash), out |-> placeholder]

\* A double-quoted identifier handled as a string: one placeholder written.
ScanQuotedIdentReplaced(sql, i) ==
    [next |-> QuotedEnd(sql, i + 1, "\"", FALSE), out |-> DQPlaceholder]

\* A double-quoted identifier: every byte the loop consumes is written.
ScanQuotedIdent(sql, i) ==
    LET e == QuotedEnd(sql, i + 1, "\"", FALSE)
    IN  [next |-> e, out |-> Slice(sql, i, e - 1)]

\* A backtick or bracket identifier that is never closed leaves the
\* cursor where it is and writes nothing.
ScanDelimitedStuck(sql, i, c) ==
    LET close == IndexFrom(sql, i + 1, <<c>>)
    IN  IF close = 0 THEN [next |-> i, out |-> <<>>]
        ELSE [next |-> close + 1, out |-> Slice(sql, i, close)]

\* A backtick or bracket identifier closed by c: copied through, the
\* closing character included when there is one.
ScanDelimited(sql, i, c) ==
    LET close == IndexFrom(sql, i + 1, <<c>>)
        e     == IF close = 0 THEN Len(sql) + 1 ELSE close + 1
    IN  [next |-> e, out |-> Slice(sql, i, e - 1)]

\* result.WriteByte(sql[i]); i++
ScanChar(sql, i) == [next |-> i + 1, out |-> <<sql[i]>>]

\* A dollar tag that never occurs again consumed to the end of the input.
DollarEndOpen(sql, i) ==
    LET tagEnd == IndexFrom(sql, i + 1, <<"$">>)
    IN  IF tagEnd = 0 THEN 0
        ELSE LET tag      == Slice(sql, i, tagEnd)
                 closeIdx == IndexFrom(sql, tagEnd + 1, tag)
             IN  IF closeIdx = 0 THEN Len(sql) + 1 ELSE closeIdx + Len(tag)

\* The cursor after a dollar-quoted span that starts at i, 0 when the
\* opening '$' has no second '$' after it or the tag never occurs again.
DollarEnd(sql, i) ==
    LET tagEnd == IndexFrom(sql, i + 1, <<"$">>)
    IN  IF tagEnd = 0 THEN 0
        ELSE LET tag      == Slice(sql, i, tagEnd)
                 closeIdx == IndexFrom(sql, tagEnd + 1, tag)
             IN  IF closeIdx = 0 THEN 0 ELSE closeIdx + Len(tag)

IsLineDash(sql, i) == i + 1 <= Len(sql) /\ sql[i] = "-" /\ sql[i + 1] = "-"
IsBlockOpen(sql, i) == i + 1 <= Len(sql) /\ sql[i] = "/" /\ sql[i + 1] = "*"

\* One iteration of the loop of MySQLAdapter.RemoveStringsAndComments.
MySQLStep(sql, i) ==
    IF IsLineDash(sql, i) THEN ScanLineComment(sql, i)
    ELSE IF sql[i] = "#" THEN ScanLineComment(sql, i)
    ELSE IF IsBlockOpen(sql, i) THEN ScanBlockComment(sql, i)
    ELSE IF sql[i] = "'" THEN ScanString(sql, i, "'", TRUE, Placeholder)
    ELSE IF sql[i] = "\"" THEN ScanString(sql, i, "\"", TRUE, DQPlaceholder)
    ELSE IF sql[i] = BT THEN ScanDelimited(sql, i, BT)
    ELSE ScanChar(sql, i)

\* The Postgres loop with '#' taken as a line comment marker.
PostgresStepHash(sql, i) ==
    IF IsLineDash(sql, i) THEN ScanLineComment(sql, i)
    ELSE IF sql[i] = "#" THEN ScanLineComment(sql, i)
    ELSE IF IsBlockOpen(sql, i) THEN ScanBlockComment(sql, i)
    ELSE IF sql[i] = "$" /\ DollarEnd(sql, i) # 0
         THEN [next |-> DollarEnd(sql, i), out |-> Placeholder]
    ELSE IF sql[i] = "'" THEN ScanString(sql, i, "'", FALSE, Placeholder)
    ELSE IF sql[i] = "\"" THEN ScanQuotedIdent(sql, i)
    ELSE ScanChar(sql, i)

\* One iteration of the loop of PostgresAdapter.RemoveStringsAndComments.
PostgresStep(sql, i) ==
    IF IsLineDash(sql, i) THEN ScanLineComment(sql, i)
    ELSE IF IsBlockOpen(sql, i) THEN ScanBlockComment(sql, i)
    ELSE IF sql[i] = "$" /\ DollarEnd(sql, i) # 0
         THEN [next |-> DollarEnd(sql, i), out |-> Placeholder]
    ELSE IF sql[i] = "'" THEN ScanString(sql, i, "'", FALSE, Placeholder)
    ELSE IF sql[i] = "\"" THEN ScanQuotedIdent(sql, i)
    ELSE ScanChar(sql, i)

\* One iteration of the loop of SQLiteAdapter.RemoveStringsAndComments.
SQLiteStep(sql, i) ==
    IF IsLineDash(sql, i) THEN ScanLineComment(sql, i)
    ELSE IF IsBlockOpen(sql, i) THEN ScanBlockComment(sql, i)
    ELSE IF sql[i] = "'" THEN ScanString(sql, i, "'", FALSE, Placeholder)
    ELSE IF sql[i] = "\"" THEN ScanQuotedIdent(sql, i)
    ELSE IF sql[i] = BT THEN ScanDelimited(sql, i, BT)
    ELSE IF sql[i] = "[" THEN ScanDelimited(sql, i, "]")
    ELSE ScanChar(sql, i)

\* One iteration of the loop of the legacy removeStringsAndComments.
LegacyStep(sql, i) ==
    IF IsLineDash(sql, i) THEN ScanLineComment(sql, i)
    ELSE IF sql[i] = "#" THEN ScanLineComment(sql, i)
    ELSE IF IsBlockOpen(sql, i) THEN ScanBlockComment(sql, i)
    ELSE IF sql[i] = "'" THEN ScanString(sql, i, "'", TRUE, Placeholder)
    ELSE IF sql[i] = "\"" THEN ScanString(sql, i, "\"", TRUE, DQPlaceholder)
    ELSE IF sql[i] = BT THEN ScanDelimited(sql, i, BT)
    ELSE ScanChar(sql, i)

MySQL == "mysql"
Postgres == "postgres"
SQLite == "sqlite"
Legacy == "legacy"
Dialects == {MySQL, Postgres, SQLite}

StripStep(d, sql, i) ==
    CASE d = MySQL    -> MySQLStep(sql, i)
      [] d = Postgres -> PostgresStep(sql, i)
      [] d = SQLite   -> SQLiteStep(sql, i)
      [] d = Legacy   -> LegacyStep(sql, i)

\* for i < n { ... }; return result.String()
RECURSIVE ScanLoop(_, _, _)
ScanLoop(d, sql, i) ==
    IF i > Len(sql) THEN <<>>
    ELSE LET r == StripStep(d, sql, i) IN r.out \o ScanLoop(d, sql, r.next)

MySQLRemoveStringsAndComments(sql) == ScanLoop(MySQL, sql, 1)
PostgresRemoveStringsAndComments(sql) == ScanLoop(Postgres, sql, 1)
SQLiteRemoveStringsAndComments(sql) == ScanLoop(SQLite, sql, 1)
removeStringsAndComments(sql) == ScanLoop(Legacy, sql, 1)

\* DBAdapter.RemoveStringsAndComments, dispatched on the adapter.
RemoveStringsAndComments(d, sql) ==
    CASE d = MySQL    -> MySQLRemoveStringsAndComments(sql)
      [] d = Postgres -> PostgresRemoveStringsAndComments(sql)
      [] d = SQLite   -> SQLiteRemoveStringsAndComments(sql)

(***************************************************************************)
(* Regular expressions of the validators.  Every pattern is compiled with  *)
(* (?i): the subject is case-folded with ToUpper and compared with the     *)
(* pattern's letters in upper case (the classes \s, \w, [a-zA-Z_] do not   *)
(* depend on case).  An operator takes the folded subject u.               *)
(***************************************************************************)
\* \b at the left of position p, the character at p being a word character.
WordStartAt(u, p) == p = 1 \/ u[p - 1] \notin WordSet

\* \b at the right of position p - 1, the character before p being a word
\* character.
WordEndAt(u, p) == p > Len(u) \/ u[p] \notin WordSet

\* All of u[from..to] is \s.
AllReSpace(u, from, to) == \A r \in from..to : u[r] \in ReSpaceSet

\* The keyword pattern written with \b: (?i)\bKW\b
KeywordMatchWordBoundary(u, kw) ==
    \E p \in 1..(Len(u) - Len(kw) + 1) :
        /\ OccursAt(u, p, kw)
        /\ (p = 1 \/ u[p - 1] \notin WordSet)
        /\ (p + Len(kw) > Len(u) \/ u[p + Len(kw)] \notin WordSet)

\* (?i)(?:^|[^a-zA-Z_])KW(?:[^a-zA-Z_]|$)
KeywordMatch(u, kw) ==
    \E p \in 1..(Len(u) - Len(kw) + 1) :
        /\ OccursAt(u, p, kw)
        /\ (p = 1 \/ u[p - 1] \notin IdentSet)
        /\ (p + Len(kw) > Len(u) \/ u[p + Len(kw)] \notin IdentSet)

\* (?i)\bNAME\s*\(
FuncMatch(u, name) ==
    \E p \in 1..(Len(u) - Len(name) + 1) :
        /\ OccursAt(u, p, name)
        /\ WordStartAt(u, p)
        /\ \E q \in (p + Len(name))..Len(u) :
              u[q] = "(" /\ AllReSpace(u, p + Len(name), q - 1)

\* (?i)\bFIRST\s+SECOND\b
TwoWordMatch(u, first, second) ==
    \E p \in 1..(Len(u) - Len(first) + 1) :
        /\ OccursAt(u, p, first)
        /\ WordStartAt(u, p)
        /\ \E q \in (p + Len(first) + 1)..Len(u) :
              /\ AllReSpace(u, p + Len(first), q - 1)
              /\ OccursAt(u, q, second)
              /\ WordEndAt(u, q + Len(second))

\* (?i)\bINTO\s+@
IntoVarMatch(u) ==
    LET into == <<"I","N","T","O">>
    IN  \E p \in 1..(Len(u) - Len(into) + 1) :
            /\ OccursAt(u, p, into)
            /\ WordStartAt(u, p)
            /\ \E q \in (p + Len(into) + 1)..Len(u) :
                  AllReSpace(u, p + Len(into), q - 1) /\ u[q] = "@"

\* (?i)\bCOPY\s+.*\bWORD\b   ('.' matches any character but a newline)
CopyMatch(u, word) ==
    LET copy == <<"C","O","P","Y">>
    IN  \E p \in 1..(Len(u) - Len(copy) + 1) :
            /\ OccursAt(u, p, copy)
            /\ WordStartAt(u, p)
            /\ \E q \in (p + Len(copy) + 1)..Len(u) :
                  /\ AllReSpace(u, p + Len(copy), q - 1)
                  /\ \E t \in q..Len(u) :
                        /\ \A r \in q..(t - 1) : u[r] # "\n"
                        /\ OccursAt(u, t, word)
                        /\ WordStartAt(u, t)
                        /\ WordEndAt(u, t + Len(word))

\* The SET pattern without its anchor: (?i)\bSET\b
SetMatchAnywhere(u) ==
    LET set == <<"S","E","T">>
    IN  \E p \in 1..Len(u) :
            /\ (p = 1 \/ u[p - 1] \notin WordSet)
            /\ OccursAt(u, p, set)
            /\ WordEndAt(u, p + Len(set))

\* (?i)(?:^|;)\s*SET\b
SetMatch(u) ==
    LET set == <<"S","E","T">>
    IN  \E a \in 1..Len(u) :
            /\ (a = 1 \/ u[a - 1] = ";")
            /\ \E p \in a..Len(u) :
                  /\ AllReSpace(u, a, p - 1)
                  /\ OccursAt(u, p, set)
                  /\ WordEndAt(u, p + Len(set))

\* (?i)\bPRAGMA\s+\w+\s*=
PragmaWriteMatch(u) ==
    LET pragma == <<"P","R","A","G","M","A">>
    IN  \E p \in 1..(Len(u) - Len(pragma) + 1) :
            /\ OccursAt(u, p, pragma)
            /\ WordStartAt(u, p)
            /\ \E q \in (p + Len(pragma) + 1)..Len(u) :
                  /\ AllReSpace(u, p + Len(pragma), q - 1)
                  /\ \E w \in (q + 1)..Len(u) :
                        /\ \A r \in q..(w - 1) : u[r] \in WordSet
                        /\ \E e \in w..Len(u) :
                              AllReSpace(u, w, e - 1) /\ u[e] = "="

\* The index of the first entry of a keyword table that matches, 0 if none.
FirstKeyword(u, table) ==
    LET hits == {k \in DOMAIN table : KeywordMatch(u, table[k].pat)}
    IN  IF hits = {} THEN 0 ELSE CHOOSE k \in hits : \A r \in hits : k <= r

\* The index of the first entry of a function table that matches, 0 if none.
FirstFunc(u, table) ==
    LET hits == {k \in DOMAIN table : FuncMatch(u, table[k].pat)}
    IN  IF hits = {} THEN 0 ELSE CHOOSE k \in hits : \A r \in hits : k <= r

(***************************************************************************)
(* Error values                                                            *)
(***************************************************************************)
Nil == <<>>
ErrEmpty == <<"empty query">>
ErrPrefix == <<"only SELECT, SHOW, DESCRIBE, and EXPLAIN queries are allowed">>
ErrMulti == <<"multiple statements are not allowed">>
ErrSet == <<"SET statements are not allowed">>
ErrPragma == <<"PRAGMA writes are not allowed">>
ErrKeyword(desc) == <<"query contains forbidden keyword: ", desc>>
ErrPattern(desc) == <<"query contains forbidden pattern: ", desc>>
ErrFunction(desc) == <<"query contains forbidden function: ", desc>>

(***************************************************************************)
(* Common policy                                                           *)
(***************************************************************************)
\* The package variable commonDangerousKeywords: validateCommon ranges over
\* the value it holds when the call runs.
VARIABLE commonDangerousKeywords

\* The value the declaration gives to commonDangerousKeywords.
commonDangerousKeywordsInit ==
    << [pat |-> <<"I","N","S","E","R","T">>, desc |-> "INSERT"],
       [pat |-> <<"U","P","D","A","T","E">>, desc |-> "UPDATE"],
       [pat |-> <<"D","E","L","E","T","E">>, desc |-> "DELETE"],
       [pat |-> <<"D","R","O","P">>, desc |-> "DROP"],
       [pat |-> <<"C","R","E","A","T","E">>, desc |-> "CREATE"],
       [pat |-> <<"A","L","T","E","R">>, desc |-> "ALTER"],
       [pat |-> <<"T","R","U","N","C","A","T","E">>, desc |-> "TRUNCATE"],
       [pat |-> <<"G","R","A","N","T">>, desc |-> "GRANT"],
       [pat |-> <<"R","E","V","O","K","E">>, desc |-> "REVOKE"] >>

\* allowedPrefixes of validateCommon and validateReadOnlyQuery.
allowedPrefixes ==
    << <<"S","E","L","E","C","T"," ">>,
       <<"S","H","O","W"," ">>,
       <<"D","E","S","C","R","I","B","E"," ">>,
       <<"D","E","S","C"," ">>,
       <<"E","X","P","L","A","I","N"," ">> >>

\* hasAllowedPrefix that accepts any white-space character after the
\* keyword and no bare SELECT, SHOW or EXPLAIN.
hasAllowedPrefixAnySpace(upper) ==
    \/ \E k \in DOMAIN allowedPrefixes :
          LET kw == TrimSpace(allowedPrefixes[k])
          IN  /\ HasPrefix(upper, kw)
              /\ Len(upper) > Len(kw)
              /\ upper[Len(kw) + 1] \in TrimSpaceSet
    \/ upper = <<"D","E","S","C">>
    \/ upper = <<"D","E","S","C","R","I","B","E">>

\* hasAllowedPrefix with the flag initialised to true: the loop never
\* matters.
hasAllowedPrefixSkipped(upper) == upper = upper

\* hasAllowedPrefix after the loop over allowedPrefixes.
hasAllowedPrefix(upper) ==
    \E k \in DOMAIN allowedPrefixes :
        HasPrefix(upper, allowedPrefixes[k]) \/ upper = TrimSpace(allowedPrefixes[k])

\* hasSecondStatement that looks at the text after the last ';'.
hasSecondStatementLast(cleaned) ==
    LET semis == {k \in 1..Len(cleaned) : cleaned[k] = ";"}
    IN  /\ semis # {}
        /\ LET last == CHOOSE k \in semis : \A r \in semis : k >= r
           IN  TrimSpace(Slice(cleaned, last + 1, Len(cleaned))) # <<>>

\* strings.Contains(cleaned, ";") and strings.TrimSpace(parts[1]) != ""
\* for parts := strings.SplitN(cleaned, ";", 2).
hasSecondStatement(cleaned) ==
    LET semi == IndexFrom(cleaned, 1, <<";">>)
    IN  semi # 0 /\ TrimSpace(Slice(cleaned, semi + 1, Len(cleaned))) # <<>>

\* validateCommon with the keyword loop ahead of the multi-statement test.
validateCommonKeywordsFirst(sqlQuery, cleanedSQL) ==
    LET trimmed == TrimSpace(sqlQuery)
        upper   == ToUpper(trimmed)
        u       == ToUpper(cleanedSQL)
        dk      == FirstKeyword(u, commonDangerousKeywords)
    IN  IF trimmed = <<>> THEN ErrEmpty
        ELSE IF ~hasAllowedPrefix(upper) THEN ErrPrefix
        ELSE IF dk # 0 THEN ErrKeyword(commonDangerousKeywords[dk].desc)
        ELSE IF hasSecondStatement(cleanedSQL) THEN ErrMulti
        ELSE IF SetMatch(u) THEN ErrSet
        ELSE Nil

validateCommon(sqlQuery, cleanedSQL) ==
    LET trimmed == TrimSpace(sqlQuery)
        upper   == ToUpper(trimmed)
        u       == ToUpper(cleanedSQL)
        dk      == FirstKeyword(u, commonDangerousKeywords)
    IN  IF trimmed = <<>> THEN ErrEmpty
        ELSE IF ~hasAllowedPrefix(upper) THEN ErrPrefix
        ELSE IF hasSecondStatement(cleanedSQL) THEN ErrMulti
        ELSE IF dk # 0 THEN ErrKeyword(commonDangerousKeywords[dk].desc)
        ELSE IF SetMatch(u) THEN ErrSet
        ELSE Nil

(***************************************************************************)
(* Dialect policies                                                        *)
(***************************************************************************)
\* dosFunctions of MySQLAdapter.ValidateQuery
MySQLDosFunctions ==
    << [pat |-> <<"S","L","E","E","P">>, desc |-> "SLEEP()"],
       [pat |-> <<"B","E","N","C","H","M","A","R","K">>, desc |-> "BENCHMARK()"],
       [pat |-> <<"G","E","T","_","L","O","C","K">>, desc |-> "GET_LOCK()"],
       [pat |-> <<"R","E","L","E","A","S","E","_","L","O","C","K">>, desc |-> "RELEASE_LOCK()"],
       [pat |-> <<"I","S","_","F","R","E","E","_","L","O","C","K">>, desc |-> "IS_FREE_LOCK()"],
       [pat |-> <<"I","S","_","U","S","E","D","_","L","O","C","K">>, desc |-> "IS_USED_LOCK()"],
       [pat |-> <<"W","A","I","T","_","F","O","R","_","E","X","E","C","U","T","E","D","_","G","T","I","D","_","S","E","T">>, desc |-> "WAIT_FOR_EXECUTED_GTID_SET()"],
       [pat |-> <<"W","A","I","T","_","U","N","T","I","L","_","S","Q","L","_","T","H","R","E","A","D","_","A","F","T","E","R","_","G","T","I","D","S">>, desc |-> "WAIT_UNTIL_SQL_THREAD_AFTER_GTIDS()"],
       [pat |-> <<"M","A","S","T","E","R","_","P","O","S","_","W","A","I","T">>, desc |-> "MASTER_POS_WAIT()"],
       [pat |-> <<"S","O","U","R","C","E","_","P","O","S","_","W","A","I","T">>, desc |-> "SOURCE_POS_WAIT()"] >>

\* extraKeywords of MySQLAdapter.ValidateQuery
MySQLExtraKeywords ==
    << [pat |-> <<"C","A","L","L">>, desc |-> "CALL"],
       [pat |-> <<"E","X","E","C">>, desc |-> "EXEC"],
       [pat |-> <<"E","X","E","C","U","T","E">>, desc |-> "EXECUTE"],
       [pat |-> <<"R","E","P","L","A","C","E">>, desc |-> "REPLACE"],
       [pat |-> <<"L","O","A","D">>, desc |-> "LOAD"],
       [pat |-> <<"H","A","N","D","L","E","R">>, desc |-> "HANDLER"],
       [pat |-> <<"R","E","N","A","M","E">>, desc |-> "RENAME"] >>

\* forbiddenPatterns of MySQLAdapter.ValidateQuery and validateReadOnlyQuery:
\* the description of the first pattern that matches, <<>> if none.
MySQLForbiddenPattern(u) ==
    IF TwoWordMatch(u, <<"I","N","T","O">>, <<"O","U","T","F","I","L","E">>) THEN <<"INTO OUTFILE">>
    ELSE IF TwoWordMatch(u, <<"I","N","T","O">>, <<"D","U","M","P","F","I","L","E">>) THEN <<"INTO DUMPFILE">>
    ELSE IF FuncMatch(u, <<"L","O","A","D","_","F","I","L","E">>) THEN <<"LOAD_FILE()">>
    ELSE IF IntoVarMatch(u) THEN <<"INTO @variable">>
    ELSE <<>>

\* MySQLAdapter.ValidateQuery with the function lists matched on the cleaned
\* text.
MySQLValidateQueryCleaned(sqlQuery) ==
    LET cleaned == MySQLRemoveStringsAndComments(sqlQuery)
        common  == validateCommon(sqlQuery, cleaned)
        raw     == ToUpper(sqlQuery)
        u       == ToUpper(cleaned)
        fp      == MySQLForbiddenPattern(raw)
        df      == FirstFunc(u, MySQLDosFunctions)
        dk      == FirstKeyword(u, MySQLExtraKeywords)
    IN  IF common # Nil THEN common
        ELSE IF fp # <<>> THEN ErrPattern(fp[1])
        ELSE IF df # 0 THEN ErrFunction(MySQLDosFunctions[df].desc)
        ELSE IF dk # 0 THEN ErrKeyword(MySQLExtraKeywords[dk].desc)
        ELSE Nil

MySQLValidateQuery(sqlQuery) ==
    LET cleaned == MySQLRemoveStringsAndComments(sqlQuery)
        common  == validateCommon(sqlQuery, cleaned)
        raw     == ToUpper(sqlQuery)
        u       == ToUpper(cleaned)
        fp      == MySQLForbiddenPattern(raw)
        df      == FirstFunc(raw, MySQLDosFunctions)
        dk      == FirstKeyword(u, MySQLExtraKeywords)
    IN  IF common # Nil THEN common
        ELSE IF fp # <<>> THEN ErrPattern(fp[1])
        ELSE IF df # 0 THEN ErrFunction(MySQLDosFunctions[df].desc)
        ELSE IF dk # 0 THEN ErrKeyword(MySQLExtraKeywords[dk].desc)
        ELSE Nil

\* dosFunctions of PostgresAdapter.ValidateQuery
PostgresDosFunctions ==
    << [pat |-> <<"P","G","_","S","L","E","E","P">>, desc |-> "pg_sleep()"],
       [pat |-> <<"P","G","_","S","L","E","E","P","_","F","O","R">>, desc |-> "pg_sleep_for()"],
       [pat |-> <<"P","G","_","S","L","E","E","P","_","U","N","T","I","L">>, desc |-> "pg_sleep_until()"],
       [pat |-> <<"P","G","_","A","D","V","I","S","O","R","Y","_","L","O","C","K">>, desc |-> "pg_advisory_lock()"],
       [pat |-> <<"P","G","_","A","D","V","I","S","O","R","Y","_","X","A","C","T","_","L","O","C","K">>, desc |-> "pg_advisory_xact_lock()"],
       [pat |-> <<"P","G","_","T","R","Y","_","A","D","V","I","S","O","R","Y","_","L","O","C","K">>, desc |-> "pg_try_advisory_lock()"] >>

\* The function entries of forbiddenPatterns of PostgresAdapter.ValidateQuery
PostgresFileFunctions ==
    << [pat |-> <<"P","G","_","R","E","A","D","_","F","I","L","E">>, desc |-> "pg_read_file()"],
       [pat |-> <<"P","G","_","R","E","A","D","_","B","I","N","A","R","Y","_","F","I","L","E">>, desc |-> "pg_read_binary_file()"],
       [pat |-> <<"P","G","_","L","S","_","D","I","R">>, desc |-> "pg_ls_dir()"],
       [pat |-> <<"L","O","_","I","M","P","O","R","T">>, desc |-> "lo_import()"],
       [pat |-> <<"L","O","_","E","X","P","O","R","T">>, desc |-> "lo_export()"] >>

\* extraKeywords of PostgresAdapter.ValidateQuery
PostgresExtraKeywords ==
    << [pat |-> <<"C","A","L","L">>, desc |-> "CALL"],
       [pat |-> <<"E","X","E","C","U","T","E">>, desc |-> "EXECUTE"],
       [pat |-> <<"C","O","P","Y">>, desc |-> "COPY"],
       [pat |-> <<"L","I","S","T","E","N">>, desc |-> "LISTEN"],
       [pat |-> <<"N","O","T","I","F","Y">>, desc |-> "NOTIFY"],
       [pat |-> <<"P","R","E","P","A","R","E">>, desc |-> "PREPARE"],
       [pat |-> <<"D","E","A","L","L","O","C","A","T","E">>, desc |-> "DEALLOCATE"],
       [pat |-> <<"V","A","C","U","U","M">>, desc |-> "VACUUM"],
       [pat |-> <<"R","E","I","N","D","E","X">>, desc |-> "REINDEX"],
       [pat |-> <<"C","L","U","S","T","E","R">>, desc |-> "CLUSTER"] >>

\* forbiddenPatterns of PostgresAdapter.ValidateQuery: the description of
\* the first pattern that matches, <<>> if none.
PostgresForbiddenPattern(u) ==
    LET ff == FirstFunc(u, PostgresFileFunctions)
    IN  IF CopyMatch(u, <<"T","O">>) THEN <<"COPY ... TO">>
        ELSE IF CopyMatch(u, <<"F","R","O","M">>) THEN <<"COPY ... FROM">>
        ELSE IF ff # 0 THEN <<PostgresFileFunctions[ff].desc>>
        ELSE <<>>

\* PostgresAdapter.ValidateQuery with the MySQL function list checked too.
PostgresValidateQueryShared(sqlQuery) ==
    LET cleaned == PostgresRemoveStringsAndComments(sqlQuery)
        common  == validateCommon(sqlQuery, cleaned)
        raw     == ToUpper(sqlQuery)
        u       == ToUpper(cleaned)
        fp      == PostgresForbiddenPattern(raw)
        df      == FirstFunc(raw, PostgresDosFunctions \o MySQLDosFunctions)
        dk      == FirstKeyword(u, PostgresExtraKeywords)
    IN  IF common # Nil THEN common
        ELSE IF fp # <<>> THEN ErrPattern(fp[1])
        ELSE IF df # 0 THEN ErrFunction((PostgresDosFunctions \o MySQLDosFunctions)[df].desc)
        ELSE IF dk # 0 THEN ErrKeyword(PostgresExtraKeywords[dk].desc)
        ELSE Nil

\* PostgresAdapter.ValidateQuery with the pattern and function loops run on
\* the cleaned text.
PostgresValidateQueryCleaned(sqlQuery) ==
    LET cleaned == PostgresRemoveStringsAndComments(sqlQuery)
        common  == validateCommon(sqlQuery, cleaned)
        u       == ToUpper(cleaned)
        fp      == PostgresForbiddenPattern(u)
        df      == FirstFunc(u, PostgresDosFunctions)
        dk      == FirstKeyword(u, PostgresExtraKeywords)
    IN  IF common # Nil THEN common
        ELSE IF fp # <<>> THEN ErrPattern(fp[1])
        ELSE IF df # 0 THEN ErrFunction(PostgresDosFunctions[df].desc)
        ELSE IF dk # 0 THEN ErrKeyword(PostgresExtraKeywords[dk].desc)
        ELSE Nil

PostgresValidateQuery(sqlQuery) ==
    LET cleaned == PostgresRemoveStringsAndComments(sqlQuery)
        common  == validateCommon(sqlQuery, cleaned)
        raw     == ToUpper(sqlQuery)
        u       == ToUpper(cleaned)
        fp      == PostgresForbiddenPattern(raw)
        df      == FirstFunc(raw, PostgresDosFunctions)
        dk      == FirstKeyword(u, PostgresExtraKeywords)
    IN  IF common # Nil THEN common
        ELSE IF fp # <<>> THEN ErrPattern(fp[1])
        ELSE IF df # 0 THEN ErrFunction(PostgresDosFunctions[df].desc)
        ELSE IF dk # 0 THEN ErrKeyword(PostgresExtraKeywords[dk].desc)
        ELSE Nil

\* forbiddenPatterns of SQLiteAdapter.ValidateQuery
SQLiteForbiddenPatterns ==
    << [pat |-> <<"L","O","A","D","_","E","X","T","E","N","S","I","O","N">>, desc |-> "load_extension()"],
       [pat |-> <<"W","R","I","T","E","F","I","L","E">>, desc |-> "writefile()"],
       [pat |-> <<"E","D","I","T">>, desc |-> "edit()"],
       [pat |-> <<"F","T","S","3","_","T","O","K","E","N","I","Z","E","R">>, desc |-> "fts3_tokenizer()"] >>

\* extraKeywords of SQLiteAdapter.ValidateQuery
SQLiteExtraKeywords ==
    << [pat |-> <<"R","E","P","L","A","C","E">>, desc |-> "REPLACE"],
       [pat |-> <<"A","T","T","A","C","H">>, desc |-> "ATTACH"],
       [pat |-> <<"D","E","T","A","C","H">>, desc |-> "DETACH"],
       [pat |-> <<"R","E","I","N","D","E","X">>, desc |-> "REINDEX"],
       [pat |-> <<"V","A","C","U","U","M">>, desc |-> "VACUUM"] >>

\* SQLiteAdapter.ValidateQuery with the pragma test ahead of the keyword
\* loop and the pattern loop last.
SQLiteValidateQueryReordered(sqlQuery) ==
    LET cleaned == SQLiteRemoveStringsAndComments(sqlQuery)
        common  == validateCommon(sqlQuery, cleaned)
        raw     == ToUpper(sqlQuery)
        u       == ToUpper(cleaned)
        fp      == FirstFunc(raw, SQLiteForbiddenPatterns)
        dk      == FirstKeyword(u, SQLiteExtraKeywords)
    IN  IF common # Nil THEN common
        ELSE IF PragmaWriteMatch(u) THEN ErrPragma
        ELSE IF dk # 0 THEN ErrKeyword(SQLiteExtraKeywords[dk].desc)
        ELSE IF fp # 0 THEN ErrPattern(SQLiteForbiddenPatterns[fp].desc)
        ELSE Nil

SQLiteValidateQuery(sqlQuery) ==
    LET cleaned == SQLiteRemoveStringsAndComments(sqlQuery)
        common  == validateCommon(sqlQuery, cleaned)
        raw     == ToUpper(sqlQuery)
        u       == ToUpper(cleaned)
        fp      == FirstFunc(raw, SQLiteForbiddenPatterns)
        dk      == FirstKeyword(u, SQLiteExtraKeywords)
    IN  IF common # Nil THEN common
        ELSE IF fp # 0 THEN ErrPattern(SQLiteForbiddenPatterns[fp].desc)
        ELSE IF dk # 0 THEN ErrKeyword(SQLiteExtraKeywords[dk].desc)
        ELSE IF PragmaWriteMatch(u) THEN ErrPragma
        ELSE Nil

\* DBAdapter.ValidateQuery, dispatched on the adapter.
ValidateQuery(d, sqlQuery) ==
    CASE d = MySQL    -> MySQLValidateQuery(sqlQuery)
      [] d = Postgres -> PostgresValidateQuery(sqlQuery)
      [] d = SQLite   -> SQLiteValidateQuery(sqlQuery)

(***************************************************************************)
(* Legacy validator of the MySQL-only server                               *)
(***************************************************************************)
\* dangerousKeywords of validateReadOnlyQuery
dangerousKeywords ==
    << [pat |-> <<"I","N","S","E","R","T">>, desc |-> "INSERT"],
       [pat |-> <<"U","P","D","A","T","E">>, desc |-> "UPDATE"],
       [pat |-> <<"D","E","L","E","T","E">>, desc |-> "DELETE"],
       [pat |-> <<"D","R","O","P">>, desc |-> "DROP"],
       [pat |-> <<"C","R","E","A","T","E">>, desc |-> "CREATE"],
       [pat |-> <<"A","L","T","E","R">>, desc |-> "ALTER"],
       [pat |-> <<"T","R","U","N","C","A","T","E">>, desc |-> "TRUNCATE"],
       [pat |-> <<"G","R","A","N","T">>, desc |-> "GRANT"],
       [pat |-> <<"R","E","V","O","K","E">>, desc |-> "REVOKE"],
       [pat |-> <<"C","A","L","L">>, desc |-> "CALL"],
       [pat |-> <<"E","X","E","C">>, desc |-> "EXEC"],
       [pat |-> <<"E","X","E","C","U","T","E">>, desc |-> "EXECUTE"],
       [pat |-> <<"R","E","P","L","A","C","E">>, desc |-> "REPLACE"],
       [pat |-> <<"L","O","A","D">>, desc |-> "LOAD"],
       [pat |-> <<"H","A","N","D","L","E","R">>, desc |-> "HANDLER"],
       [pat |-> <<"R","E","N","A","M","E">>, desc |-> "RENAME"] >>

\* The legacy validator without the keywords the adapter keeps in its
\* extraKeywords list.
validateReadOnlyQueryCommonOnly(sql) ==
    LET trimmed == TrimSpace(sql)
        upper   == ToUpper(trimmed)
        cleaned == removeStringsAndComments(sql)
        raw     == ToUpper(sql)
        u       == ToUpper(cleaned)
        fp      == MySQLForbiddenPattern(raw)
        df      == FirstFunc(raw, MySQLDosFunctions)
        dk      == FirstKeyword(u, commonDangerousKeywordsInit)
    IN  IF trimmed = <<>> THEN ErrEmpty
        ELSE IF ~hasAllowedPrefix(upper) THEN ErrPrefix
        ELSE IF hasSecondStatement(cleaned) THEN ErrMulti
        ELSE IF fp # <<>> THEN ErrPattern(fp[1])
        ELSE IF df # 0 THEN ErrFunction(MySQLDosFunctions[df].desc)
        ELSE IF dk # 0 THEN ErrKeyword(commonDangerousKeywordsInit[dk].desc)
        ELSE IF SetMatch(u) THEN ErrSet
        ELSE Nil

validateReadOnlyQuery(sql) ==
    LET trimmed == TrimSpace(sql)
        upper   == ToUpper(trimmed)
        cleaned == removeStringsAndComments(sql)
        raw     == ToUpper(sql)
        u       == ToUpper(cleaned)
        fp      == MySQLForbiddenPattern(raw)
        df      == FirstFunc(raw, MySQLDosFunctions)
        dk      == FirstKeyword(u, dangerousKeywords)
    IN  IF trimmed = <<>> THEN ErrEmpty
        ELSE IF ~hasAllowedPrefix(upper) THEN ErrPrefix
        ELSE IF hasSecondStatement(cleaned) THEN ErrMulti
        ELSE IF fp # <<>> THEN ErrPattern(fp[1])
        ELSE IF df # 0 THEN ErrFunction(MySQLDosFunctions[df].desc)
        ELSE IF dk # 0 THEN ErrKeyword(dangerousKeywords[dk].desc)
        ELSE IF SetMatch(u) THEN ErrSet
        ELSE Nil

(***************************************************************************)
(* State                                                                   *)
(*                                                                         *)
(* One adapter call at a time: a dialect and a query string, the result of *)
(* the adapter's RemoveStringsAndComments and of its ValidateQuery.  shape *)
(* remembers the pieces the query was assembled from; the program never    *)
(* reads it.                                                               *)
(*                                                                         *)
(* The legacy server: args is the "sql" argument of the tools/call request *)
(* being answered, valErr what validateReadOnlyQuery returned for it,      *)
(* dbQueries the query strings handed to db.QueryContext so far, result    *)
(* and rpcErr the two return values of executeQuery.                       *)
(***************************************************************************)
VARIABLES dialect, sql, shape, pc, cleaned, verdict, recleaned,
          args, valErr, dbQueries, result, rpcErr, calls, validations

\* The server value NewMCPServer or NewMySQLMCPServer returned, the
\* connections its *sql.DB has dialed, the connections a user query ran on
\* and the warnings logged.
VARIABLES server, conns, queriedOn, warnings

poolVars == <<server, conns, queriedOn, warnings>>

\* The environment variable MCP_SQLITE_PATH and the two return values of
\* SQLiteAdapter.BuildDSN.
VARIABLES sqlitePath, dsn, dsnErr

dsnVars == <<sqlitePath, dsn, dsnErr>>

\* The row loop of executeQuery: the rows the result set holds and where
\* the driver fails, the position in the loop, the locals results and
\* rowCount, and the value returned.
VARIABLES rowSet, fetchPc, results, rowCount, fetched

fetchVars == <<rowSet, fetchPc, results, rowCount, fetched>>

\* The loop of RemoveStringsAndComments pass by pass: the cursor i, the
\* result builder, the passes made, and for every byte of the input the
\* number of passes that consumed it.
VARIABLES cursor, builder, passes, consumed

scanVars == <<cursor, builder, passes, consumed>>

\* The state of the running program outside the validators.
\* handleMessage: the line it is given and the responses it returns (none
\* for a nil return, else one).
VARIABLES message, response
rpcVars == <<message, response>>

\* Run: the input stream and what is left of it, the server context, the
\* position in the loop, the line read, Run's return value, the responses
\* printed, and the number of lines dispatched since the context was
\* cancelled.
VARIABLES input, unread, ctxDone, runPc, line, runErr, stdout, sinceCancel
runVars == <<input, unread, ctxDone, runPc, line, runErr, stdout, sinceCancel>>

runtimeVars == <<poolVars, dsnVars, fetchVars, scanVars, rpcVars, runVars>>

vars == <<dialect, sql, shape, pc, cleaned, verdict, recleaned,
          args, valErr, dbQueries, result, rpcErr, calls,
          commonDangerousKeywords, validations, runtimeVars>>

adapterVars == <<dialect, sql, shape, pc, cleaned, verdict, recleaned>>
serverVars == <<args, valErr, dbQueries, result, rpcErr, calls>>

\* What calls running side by side have in common: the package variable
\* and the table of the calls in flight.
sharedVars == <<commonDangerousKeywords, validations>>

\* Bound on the number of ValidateQuery calls in flight at once.
MaxGoroutines == 2

Goroutines == 1..MaxGoroutines

\* The concatenations of at most n members of F.
RECURSIVE Concats(_, _)
Concats(F, n) ==
    IF n = 0 THEN {<<>>}
    ELSE LET shorter == Concats(F, n - 1)
         IN  shorter \cup {f \o b : f \in F, b \in shorter}

NoShape == [family |-> "none", pre |-> <<>>, mid |-> <<>>, post |-> <<>>, owner |-> "none"]
NotCalled == <<"validator not called">>
NoResult == [IsError |-> FALSE, Text |-> <<>>]

\* No ValidateQuery call in flight.
NoValidation == [pc |-> "idle", dialect |-> MySQL, sqlQuery |-> <<>>, err |-> Nil]

NoServer == [type |-> "none", adapter |-> MySQL, state |-> "none"]

\* No server constructed, no connection dialed.
PoolIdle ==
    /\ server = NoServer
    /\ conns = <<>>
    /\ queriedOn = {}
    /\ warnings = 0

NoDsnYet == <<"BuildDSN has not returned">>

\* BuildDSN not called.
DsnIdle ==
    /\ sqlitePath = <<>>
    /\ dsn = <<>>
    /\ dsnErr = NoDsnYet

NoRows == [rows |-> 0, scanFailsAt |-> 0, nextFailsAt |-> 0, read |-> 0]
NothingFetched == [IsError |-> FALSE, Rows |-> <<>>]

\* No query result being read.
FetchIdle ==
    /\ rowSet = NoRows
    /\ fetchPc = "idle"
    /\ results = <<>>
    /\ rowCount = 0
    /\ fetched = NothingFetched

\* No stripper loop running.
ScanIdle ==
    /\ cursor = 1
    /\ builder = <<>>
    /\ passes = 0
    /\ consumed = <<>>

\* A JSON value of a request member: t is its JSON type ("absent" when the
\* member is missing) and v its text.
JAbsent == [t |-> "absent", v |-> ""]
JNull == [t |-> "null", v |-> "null"]
JString(s) == [t |-> "string", v |-> s]
JNumber(s) == [t |-> "number", v |-> s]

\* One line of input, trimmed: form says whether it is blank, not JSON at
\* all, or JSON null, an array or an object; for an object the three
\* members the request type reads follow. ret is what the method's handler
\* returns for it (NoError with a result, or an error code).
Line(form, jsonrpc, id, method, ret) ==
    [form |-> form, jsonrpc |-> jsonrpc, id |-> id, method |-> method, ret |-> ret]

\* The error code of a response that carries no error.
NoError == 0

NoLine == Line("none", JAbsent, JAbsent, JAbsent, NoError)
\* The value of response before handleMessage returns: two zero responses,
\* which handleMessage never returns.
ZeroResponse == [JSONRPC |-> "", ID |-> JNull, Result |-> "nil", Error |-> NoError]
NotHandled == <<ZeroResponse, ZeroResponse>>

\* handleMessage not called.
RpcIdle ==
    /\ message = NoLine
    /\ response = NotHandled

NoInput == [lines |-> <<>>, ending |-> "none"]
NotReturned == <<"Run has not returned">>

\* Run not called.
RunIdle ==
    /\ input = NoInput
    /\ unread = <<>>
    /\ ctxDone = FALSE
    /\ runPc = "idle"
    /\ line = NoLine
    /\ runErr = NotReturned
    /\ stdout = <<>>
    /\ sinceCancel = 0

RuntimeIdle == PoolIdle /\ DsnIdle /\ FetchIdle /\ ScanIdle /\ RpcIdle /\ RunIdle

ServerIdle ==
    /\ RuntimeIdle
    /\ commonDangerousKeywords = commonDangerousKeywordsInit
    /\ validations = [g \in Goroutines |-> NoValidation]
    /\ args = <<>>
    /\ valErr = NotCalled
    /\ dbQueries = <<>>
    /\ result = NoResult
    /\ rpcErr = Nil
    /\ calls = 0

AdapterIdle ==
    /\ dialect = MySQL
    /\ sql = <<>>
    /\ shape = NoShape
    /\ pc = "idle"
    /\ cleaned = <<>>
    /\ verdict = Nil
    /\ recleaned = <<>>

\* A query handed to an adapter, not yet stripped or validated.
Fresh(d, q, sh) ==
    /\ dialect = d
    /\ sql = q
    /\ shape = sh
    /\ pc = "new"
    /\ cleaned = <<>>
    /\ verdict = Nil
    /\ recleaned = <<>>

(***************************************************************************)
(* Adapter operations                                                      *)
(***************************************************************************)
\* adapter.RemoveStringsAndComments(sql)
Strip ==
    /\ pc = "new"
    /\ cleaned' = RemoveStringsAndComments(dialect, sql)
    /\ pc' = "stripped"
    /\ UNCHANGED <<dialect, sql, shape, verdict, recleaned, serverVars, sharedVars, runtimeVars>>

\* adapter.ValidateQuery(sql)
Validate ==
    /\ pc = "stripped"
    /\ verdict' = ValidateQuery(dialect, sql)
    /\ pc' = "validated"
    /\ UNCHANGED <<dialect, sql, shape, cleaned, recleaned, serverVars, sharedVars, runtimeVars>>

NextAdapter == Strip \/ Validate

\* adapter.RemoveStringsAndComments applied to the text it returned before.
Restrip ==
    /\ pc = "stripped"
    /\ recleaned' = RemoveStringsAndComments(dialect, cleaned)
    /\ pc' = "restripped"
    /\ UNCHANGED <<dialect, sql, shape, cleaned, verdict, serverVars, sharedVars, runtimeVars>>

NextRestrip == Strip \/ Restrip

(***************************************************************************)
(* ValidateQuery calls running side by side, as goroutines sharing one     *)
(* adapter value and the package variables.                                *)
(***************************************************************************)
\* go adapter.ValidateQuery(sqlQuery): the call is entered.
CallValidateQuery(g, d, q) ==
    /\ validations[g].pc = "idle"
    /\ validations' = [validations EXCEPT
                          ![g] = [pc |-> "running", dialect |-> d,
                                  sqlQuery |-> q, err |-> Nil]]
    /\ UNCHANGED <<adapterVars, serverVars, commonDangerousKeywords, runtimeVars>>

\* A call whose keyword loop consumes the package slice as it goes:
\* commonDangerousKeywords = commonDangerousKeywords[1:].
ReturnValidateQueryConsuming(g) ==
    /\ validations[g].pc = "running"
    /\ validations' = [validations EXCEPT
                          ![g].pc = "returned",
                          ![g].err = ValidateQuery(validations[g].dialect,
                                                   validations[g].sqlQuery)]
    /\ commonDangerousKeywords' =
          IF commonDangerousKeywords = <<>> THEN <<>> ELSE Tail(commonDangerousKeywords)
    /\ UNCHANGED <<adapterVars, serverVars, runtimeVars>>

\* The call runs to its return statement; it reads commonDangerousKeywords
\* and writes locals only.
ReturnValidateQuery(g) ==
    /\ validations[g].pc = "running"
    /\ validations' = [validations EXCEPT
                          ![g].pc = "returned",
                          ![g].err = ValidateQuery(validations[g].dialect,
                                                   validations[g].sqlQuery)]
    /\ UNCHANGED <<adapterVars, serverVars, commonDangerousKeywords, runtimeVars>>

\* The caller is done with the result.
DropResult(g) ==
    /\ validations[g].pc = "returned"
    /\ validations' = [validations EXCEPT ![g] = NoValidation]
    /\ UNCHANGED <<adapterVars, serverVars, commonDangerousKeywords, runtimeVars>>

(***************************************************************************)
(* Legacy server: MySQLMCPServer.executeQuery                              *)
(***************************************************************************)
\* Bound on the number of tools/call requests of one run.
MaxCalls == 2

ErrInvalidParams == <<"Missing or invalid 'sql' parameter">>
Missing == <<"<no sql argument>">>

\* sqlQuery, ok := args["sql"].(string); !ok || sqlQuery == ""
BadSqlParam(a) == a = Missing \/ a = <<>>

\* executeQuery with the validation result ignored: the query is run even
\* when the validator rejected it.
executeQueryUngated(a, dbFails) ==
    /\ calls < MaxCalls
    /\ calls' = calls + 1
    /\ args' = a
    /\ IF BadSqlParam(a)
       THEN /\ valErr' = NotCalled
            /\ rpcErr' = ErrInvalidParams
            /\ result' = NoResult
            /\ UNCHANGED dbQueries
       ELSE /\ valErr' = validateReadOnlyQuery(a)
            /\ rpcErr' = Nil
            /\ dbQueries' = Append(dbQueries, a)
            /\ result' = IF dbFails
                         THEN [IsError |-> TRUE, Text |-> <<"Query error: ", "db">>]
                         ELSE [IsError |-> FALSE, Text |-> <<"rows">>]
    /\ UNCHANGED <<adapterVars, sharedVars, runtimeVars>>

\* executeQuery with a rejection returned as a JSON-RPC error object.
executeQueryFault(a, dbFails) ==
    /\ calls < MaxCalls
    /\ calls' = calls + 1
    /\ args' = a
    /\ IF BadSqlParam(a)
       THEN /\ valErr' = NotCalled
            /\ rpcErr' = ErrInvalidParams
            /\ result' = NoResult
            /\ UNCHANGED dbQueries
       ELSE LET err == validateReadOnlyQuery(a)
            IN  /\ valErr' = err
                /\ IF err # Nil
                   THEN /\ rpcErr' = <<"Query rejected: ">> \o err
                        /\ result' = NoResult
                        /\ UNCHANGED dbQueries
                   ELSE /\ rpcErr' = Nil
                        /\ dbQueries' = Append(dbQueries, a)
                        /\ result' =
                             IF dbFails
                             THEN [IsError |-> TRUE, Text |-> <<"Query error: ", "db">>]
                             ELSE [IsError |-> FALSE, Text |-> <<"rows">>]
    /\ UNCHANGED <<adapterVars, sharedVars, runtimeVars>>

\* The whole handler for one request whose "sql" argument is a (Missing
\* when the argument is absent or no string); dbFails is whether
\* db.QueryContext returns an error.
executeQuery(a, dbFails) ==
    /\ calls < MaxCalls
    /\ calls' = calls + 1
    /\ args' = a
    /\ IF BadSqlParam(a)
       THEN /\ valErr' = NotCalled
            /\ rpcErr' = ErrInvalidParams
            /\ result' = NoResult
            /\ UNCHANGED dbQueries
       ELSE LET err == validateReadOnlyQuery(a)
            IN  /\ valErr' = err
                /\ rpcErr' = Nil
                /\ IF err # Nil
                   THEN /\ result' = [IsError |-> TRUE,
                                      Text |-> <<"Query rejected: ">> \o err]
                        /\ UNCHANGED dbQueries
                   ELSE /\ dbQueries' = Append(dbQueries, a)
                        /\ result' =
                             IF dbFails
                             THEN [IsError |-> TRUE, Text |-> <<"Query error: ", "db">>]
                             ELSE [IsError |-> FALSE, Text |-> <<"rows">>]
    /\ UNCHANGED <<adapterVars, sharedVars, runtimeVars>>

\* The "sql" arguments of the requests sent to the legacy server.
ServerRequests ==
    { <<"S","E","L","E","C","T"," ","1">>,
      <<"s","e","l","e","c","t"," ","1",";">>,
      <<"S","E","L","E","C","T"," ","1",";"," ","D","R","O","P"," ","T","A","B","L","E"," ","t">>,
      <<"S","E","L","E","C","T"," ","1"," ","-","-"," ",";"," ","D","R","O","P"," ","T","A","B","L","E"," ","t">>,
      <<"S","E","L","E","C","T"," ","'","D","R","O","P","'">>,
      <<"S","E","L","E","C","T"," ","S","L","E","E","P","(","1",")">>,
      <<"S","E","L","E","C","T"," ","*"," ","I","N","T","O"," ","O","U","T","F","I","L","E"," ","'","f","'">>,
      <<"D","R","O","P"," ","T","A","B","L","E"," ","t">>,
      <<"U","P","D","A","T","E"," ","t"," ","S","E","T"," ","x","=","1">>,
      <<" "," "," ">>,
      <<"D","E","S","C">>,
      <<"E","X","P","L","A","I","N"," ","D","E","L","E","T","E"," ","F","R","O","M"," ","t">>,
      <<"S","E","L","E","C","T","\t","x">> }

NextServer ==
    \E a \in ServerRequests \cup {Missing, <<>>}, dbFails \in BOOLEAN : executeQuery(a, dbFails)

InitServer == AdapterIdle /\ ServerIdle

SpecServer == InitServer /\ [][NextServer]_vars

(***************************************************************************)
(* Inputs of the prefix rule: optional leading white space, a word, what   *)
(* follows the word, and a short tail.                                     *)
(***************************************************************************)
PrefixLeads ==
    { <<>>,
      <<" ">>,
      <<"\n">> }

PrefixWords ==
    { <<"S","E","L","E","C","T">>,
      <<"s","e","l","e","c","t">>,
      <<"S","H","O","W">>,
      <<"D","E","S","C","R","I","B","E">>,
      <<"D","E","S","C">>,
      <<"E","X","P","L","A","I","N">>,
      <<"E","x","p","l","a","i","n">>,
      <<"U","P","D","A","T","E">>,
      <<"S","E","L","E","C">>,
      <<>> }

PrefixSeps ==
    { <<>>,
      <<" ">>,
      <<"\t">>,
      <<"\n">>,
      <<"X">>,
      <<"(">>,
      <<";">> }

PrefixFrags ==
    { <<"1">>,
      <<" ">>,
      <<"R">> }

\* Bound on the number of fragments of the tail.
MaxPrefixFrags == 2

PrefixQueries ==
    {l \o w \o p \o t : l \in PrefixLeads, w \in PrefixWords, p \in PrefixSeps,
                        t \in Concats(PrefixFrags, MaxPrefixFrags)}

InitPrefix ==
    /\ ServerIdle
    /\ \E d \in Dialects, q \in PrefixQueries : Fresh(d, q, NoShape)

SpecPrefix == InitPrefix /\ [][NextAdapter]_vars


(***************************************************************************)
(* Inputs of the multi-statement rule: a leading keyword and a tail built  *)
(* from semicolons, white space, quotes and comment markers.               *)
(***************************************************************************)
MultiHeads ==
    { <<"S","E","L","E","C","T"," ">>,
      <<"s","h","o","w">> }

MultiFrags ==
    { <<"1">>,
      <<" ">>,
      <<";">>,
      <<"'">>,
      <<"-","-">>,
      <<"\n">>,
      <<"/","*">>,
      <<"*","/">>,
      <<"#">>,
      <<"\"">> }

\* Bound on the number of fragments of the tail.
MaxMultiFrags == 3

MultiQueries == {h \o t : h \in MultiHeads, t \in Concats(MultiFrags, MaxMultiFrags)}

InitMulti ==
    /\ ServerIdle
    /\ \E d \in Dialects, q \in MultiQueries : Fresh(d, q, NoShape)

SpecMulti == InitMulti /\ [][NextAdapter]_vars


(***************************************************************************)
(* Inputs of literal-content immunity: SELECT * FROM t WHERE c = 'X' with  *)
(* X a dangerous keyword or a call of a forbidden function.                *)
(***************************************************************************)
LowerOf == [c \in UpperSet |-> LowerSeq[CHOOSE k \in DOMAIN UpperSeq : UpperSeq[k] = c]]

ToLower(s) == [k \in 1..Len(s) |-> IF s[k] \in UpperSet THEN LowerOf[s[k]] ELSE s[k]]

\* The patterns of a table, as a set.
Pats(table) == {table[k].pat : k \in DOMAIN table}

\* Both spellings of each word of W.
BothCases(W) == W \cup {ToLower(w) : w \in W}

\* The bare keywords some rule of some dialect names.
DangerousKeywords ==
    Pats(commonDangerousKeywordsInit) \cup Pats(MySQLExtraKeywords)
        \cup Pats(PostgresExtraKeywords) \cup Pats(SQLiteExtraKeywords)
        \cup {<<"S","E","T">>, <<"P","R","A","G","M","A">>}

\* The function names each dialect forbids to call.
ForbiddenFunctions(d) ==
    CASE d = MySQL    -> Pats(MySQLDosFunctions) \cup {<<"L","O","A","D","_","F","I","L","E">>}
      [] d = Postgres -> Pats(PostgresDosFunctions) \cup Pats(PostgresFileFunctions)
      [] d = SQLite   -> Pats(SQLiteForbiddenPatterns)

\* Bound on the white space between a function name and its parenthesis.
MaxCallSpaces == 1

RECURSIVE Spaces(_)
Spaces(n) == IF n = 0 THEN <<>> ELSE <<" ">> \o Spaces(n - 1)

\* The calls of the functions of F.
Calls(F) == {f \o Spaces(n) \o <<"(","1",")">> : f \in BothCases(F), n \in 0..MaxCallSpaces}

LiteralPre == <<"S","E","L","E","C","T"," ","*"," ","F","R","O","M"," ","t"," ","W","H","E","R","E"," ","c"," ","="," ","'">>

LiteralShape(x, o) ==
    [family |-> "literal", pre |-> LiteralPre, mid |-> x, post |-> <<"'">>, owner |-> o]

InitLiteral ==
    /\ ServerIdle
    /\ \E d \in Dialects :
          \/ \E x \in BothCases(DangerousKeywords) :
                Fresh(d, LiteralPre \o x \o <<"'">>, LiteralShape(x, "keyword"))
          \/ \E o \in Dialects : \E x \in Calls(ForbiddenFunctions(o)) :
                Fresh(d, LiteralPre \o x \o <<"'">>, LiteralShape(x, o))

SpecLiteral == InitLiteral /\ [][NextAdapter]_vars

(***************************************************************************)
(* Inputs of comment-content immunity: an allowed query with one comment   *)
(* whose content is built from semicolons, keywords and blanks.            *)
(***************************************************************************)
CommentPres == {<<"S","E","L","E","C","T"," ","1"," ">>, <<"S","E","L","E","C","T"," ","a">>}

CommentPosts == {<<>>, <<" ","F","R","O","M"," ","t">>, <<";">>}

CommentFrags == {<<" ">>, <<";">>, <<"x">>, <<"D","R","O","P">>, <<"D","E","L","E","T","E">>, <<"S","E","T">>, <<"C","O","P","Y">>}

\* Bound on the number of fragments of the comment's content.
MaxCommentFrags == 2

\* The comment markers of each dialect.
CommentKinds(d) == IF d = MySQL THEN {"--", "/*", "#"} ELSE {"--", "/*"}

CommentOpen(kind) ==
    CASE kind = "--" -> <<"-","-">>
      [] kind = "/*" -> <<"/","*">>
      [] kind = "#"  -> <<"#">>

\* What ends the comment: the block closer, or for a line comment the end
\* of the line when text follows.
CommentClose(kind, post) ==
    IF kind = "/*" THEN <<"*","/">> ELSE IF post = <<>> THEN <<>> ELSE <<"\n">>

CommentQuery(pre, kind, payload, post) ==
    pre \o CommentOpen(kind) \o payload \o CommentClose(kind, post) \o post

InitComment ==
    /\ ServerIdle
    /\ \E d \in Dialects : \E kind \in CommentKinds(d) :
       \E pre \in CommentPres, post \in CommentPosts :
       \E payload \in Concats(CommentFrags, MaxCommentFrags) :
          Fresh(d, CommentQuery(pre, kind, payload, post),
                [family |-> "comment", pre |-> pre, mid |-> payload,
                 post |-> post, owner |-> kind])

SpecComment == InitComment /\ [][NextAdapter]_vars

(***************************************************************************)
(* Inputs of escaped-quote immunity: one single-quoted literal whose body  *)
(* is built from the pieces the dialect's literal grammar allows, between  *)
(* a prefix and a suffix that does not start with a quote.                 *)
(***************************************************************************)
QuotePres == {<<"S","E","L","E","C","T"," ">>, <<"S","E","L","E","C","T"," ","1",",">>}

QuotePosts == {<<>>, <<" ","F","R","O","M"," ","t">>, <<";"," ","D","R","O","P">>, <<" ","-","-"," ","x">>, <<" ","'","b","'">>}

\* The pieces of a literal body: a doubled quote in every dialect, a
\* backslash escape in MySQL, a backslash as itself in the others.
QuoteFrags(d) ==
    IF d = MySQL THEN {<<"a">>, <<";">>, <<"'","'">>, <<"\\","'">>, <<"\\","\\">>}
    ELSE {<<"a">>, <<";">>, <<"'","'">>, <<"\\">>}

\* Bound on the number of pieces of the literal body.
MaxQuoteFrags == 3

InitQuote ==
    /\ ServerIdle
    /\ \E d \in Dialects : \E pre \in QuotePres, post \in QuotePosts :
       \E body \in Concats(QuoteFrags(d), MaxQuoteFrags) :
          Fresh(d, pre \o <<"'">> \o body \o <<"'">> \o post,
                [family |-> "quote", pre |-> pre, mid |-> body,
                 post |-> post, owner |-> d])

SpecQuote == InitQuote /\ [][NextAdapter]_vars

(***************************************************************************)
(* Inputs of the '#' rule: plain text, a '#', text on the same line, and   *)
(* what follows the line.                                                  *)
(***************************************************************************)
HashPres == {<<"S","E","L","E","C","T"," ">>, <<"S","E","L","E","C","T"," ","1"," ">>}

HashRests == {<<>>, <<"\n","F","R","O","M"," ","t">>, <<"\n","'","a","'">>}

HashFrags == {<<"x">>, <<" ">>, <<"'">>, <<";">>, <<"-","-">>, <<"#">>}

\* Bound on the number of fragments between the '#' and the end of line.
MaxHashFrags == 2

InitHash ==
    /\ ServerIdle
    /\ \E d \in Dialects : \E pre \in HashPres, rest \in HashRests :
       \E text \in Concats(HashFrags, MaxHashFrags) :
          Fresh(d, pre \o <<"#">> \o text \o rest,
                [family |-> "hash", pre |-> pre, mid |-> text,
                 post |-> rest, owner |-> d])

SpecHash == InitHash /\ [][NextAdapter]_vars

(***************************************************************************)
(* Inputs of the blocking-function lists: an allowed query with one call   *)
(* of a function of the MySQL or of the Postgres list.                     *)
(***************************************************************************)
DosPres == {<<"S","E","L","E","C","T"," ">>, <<"S","E","L","E","C","T"," ","a",",">>, <<"S","E","L","E","C","T"," ","1"," ","F","R","O","M"," ","t"," ","W","H","E","R","E"," ">>}

DosGapChars == {<<" ">>, <<"\t">>, <<"\n">>}

\* Bound on the white space between the function name and its parenthesis.
MaxDosGap == 1

DosOwners == {MySQL, Postgres}

DosNames(o) == IF o = MySQL THEN Pats(MySQLDosFunctions) ELSE Pats(PostgresDosFunctions)

InitDos ==
    /\ ServerIdle
    /\ \E d \in Dialects, o \in DosOwners :
       \E pre \in DosPres, f \in BothCases(DosNames(o)) :
       \E gap \in Concats(DosGapChars, MaxDosGap) :
          Fresh(d, pre \o f \o gap \o <<"(","1",")">>,
                [family |-> "dos", pre |-> pre, mid |-> f \o gap \o <<"(","1",")">>,
                 post |-> <<>>, owner |-> o])

SpecDos == InitDos /\ [][NextAdapter]_vars

(***************************************************************************)
(* Inputs of the pragma rule: an optional leading keyword, PRAGMA, a       *)
(* pragma name and a tail that may assign a value.                         *)
(***************************************************************************)
PragmaHeads == {<<"P","R","A","G","M","A"," ">>, <<"p","r","a","g","m","a"," ">>, <<"E","X","P","L","A","I","N"," ","P","R","A","G","M","A"," ">>, <<"S","E","L","E","C","T"," ","1"," ","F","R","O","M"," ","P","R","A","G","M","A","_">>}

PragmaNames == {<<"j","o","u","r","n","a","l","_","m","o","d","e">>, <<"t","a","b","l","e","_","i","n","f","o">>, <<"s","y","n","c","h","r","o","n","o","u","s">>}

PragmaFrags == {<<" ","="," ">>, <<"=">>, <<" ">>, <<"W","A","L">>, <<"(","'","t","'",")">>}

\* Bound on the number of fragments after the pragma name.
MaxPragmaFrags == 2

InitPragma ==
    /\ ServerIdle
    /\ \E d \in Dialects : \E head \in PragmaHeads, name \in PragmaNames :
       \E tail \in Concats(PragmaFrags, MaxPragmaFrags) :
          Fresh(d, head \o name \o tail,
                [family |-> "pragma", pre |-> head, mid |-> name,
                 post |-> tail, owner |-> SQLite])

SpecPragma == InitPragma /\ [][NextAdapter]_vars

(***************************************************************************)
(* Inputs of idempotence: every string built from the characters the       *)
(* strippers react to.                                                     *)
(***************************************************************************)
IdemFrags ==
    {<<"'">>, <<"\"">>, <<"-","-">>, <<"/","*">>, <<"*","/">>, <<"\n">>, <<"$">>, <<"$","$">>, <<"a">>, <<"\\">>, <<"#">>,
     <<BT>>, <<"[">>, <<"]">>}

\* Bound on the number of fragments of the input.
MaxIdemFrags == 3

InitIdem ==
    /\ ServerIdle
    /\ \E d \in Dialects : \E q \in Concats(IdemFrags, MaxIdemFrags) :
          Fresh(d, q, NoShape)

SpecIdem == InitIdem /\ [][NextRestrip]_vars

(***************************************************************************)
(* Inputs of the common keyword rule: SELECT followed by keywords,         *)
(* identifier characters and separators, and every keyword between every   *)
(* kind of neighbour.                                                      *)
(***************************************************************************)
KeywordFrags == {<<"D","R","O","P">>, <<"i","n","s","e","r","t">>, <<"D","e","l","e","t","e">>, <<"a">>, <<"_">>, <<"1">>, <<" ">>, <<"(">>, <<"'","x","'">>}

\* Bound on the number of fragments after SELECT.
MaxKeywordFrags == 3

KeywordLefts == {<<" ">>, <<" ","a">>, <<" ","_">>, <<" ","1">>, <<" ","(">>}

KeywordRights == {<<>>, <<" ">>, <<"a">>, <<"_">>, <<"1">>, <<")">>}

KeywordQueries ==
    {<<"S","E","L","E","C","T"," ">> \o t : t \in Concats(KeywordFrags, MaxKeywordFrags)}
        \cup {<<"S","E","L","E","C","T">> \o l \o k \o r :
                l \in KeywordLefts, k \in BothCases(Pats(commonDangerousKeywordsInit)),
                r \in KeywordRights}

InitKeyword ==
    /\ ServerIdle
    /\ \E d \in Dialects, q \in KeywordQueries : Fresh(d, q, NoShape)

SpecKeyword == InitKeyword /\ [][NextAdapter]_vars

(***************************************************************************)
(* Inputs of the rule order: queries that break several common rules at    *)
(* once.                                                                   *)
(***************************************************************************)
OrderHeads == {<<>>, <<" ">>, <<"S","E","L","E","C","T"," ">>, <<"D","R","O","P"," ">>, <<"S","E","T"," ">>}

OrderFrags == {<<"1">>, <<" ">>, <<";">>, <<"D","R","O","P">>, <<"S","E","T">>, <<"x">>}

\* Bound on the number of fragments after the head.
MaxOrderFrags == 3

OrderQueries ==
    {h \o t : h \in OrderHeads, t \in Concats(OrderFrags, MaxOrderFrags)}
        \cup {<<"S","E","L","E","C","T"," ","1",";"," ","D","R","O","P"," ","T","A","B","L","E"," ","x">>}

InitOrder ==
    /\ ServerIdle
    /\ \E d \in Dialects, q \in OrderQueries : Fresh(d, q, NoShape)

SpecOrder == InitOrder /\ [][NextAdapter]_vars

(***************************************************************************)
(* Inputs of the dialect layers: an allowed or a refused head followed by  *)
(* constructs that the layers of the three dialects react to.              *)
(***************************************************************************)
LayerHeads == {<<"S","E","L","E","C","T"," ">>, <<"D","R","O","P"," ">>, <<"S","E","L","E","C","T"," ","1",";","x"," ">>}

LayerFrags ==
    {<<"S","L","E","E","P","(","1",")"," ">>, <<"L","O","A","D","_","F","I","L","E","(","1",")"," ">>, <<"I","N","T","O"," ","O","U","T","F","I","L","E"," ">>, <<"C","A","L","L"," ">>,
     <<"p","g","_","s","l","e","e","p","(","1",")"," ">>, <<"C","O","P","Y"," ","t"," ","T","O"," ">>, <<"l","o","_","i","m","p","o","r","t","(","1",")"," ">>, <<"L","I","S","T","E","N"," ">>,
     <<"e","d","i","t","(","1",")"," ">>, <<"A","T","T","A","C","H"," ">>, <<"P","R","A","G","M","A"," ","a","=","1"," ">>, <<"R","E","P","L","A","C","E"," ">>, <<"'">>}

\* Bound on the number of constructs after the head.
MaxLayerFrags == 2

InitLayers ==
    /\ ServerIdle
    /\ \E d \in Dialects : \E h \in LayerHeads :
       \E t \in Concats(LayerFrags, MaxLayerFrags) : Fresh(d, h \o t, NoShape)

SpecLayers == InitLayers /\ [][NextAdapter]_vars

(***************************************************************************)
(* Inputs of totality: every string built from the characters the          *)
(* strippers react to, and queries that end inside a single-quoted string, *)
(* a double-quoted span or a block comment.                                *)
(***************************************************************************)
\* Bound on the number of fragments of an arbitrary input.
MaxTotalFrags == 3

OpenPres == {<<"S","E","L","E","C","T"," ">>, <<"S","E","L","E","C","T"," ","1",";">>}

OpenKinds == {<<"'">>, <<"\"">>, <<"/","*">>}

\* Text that does not close the span opened by kind.
OpenFrags(kind) ==
    {<<"a">>, <<";">>, <<" ","D","R","O","P"," ">>, <<"-","-">>, <<"\n">>, <<"#">>}
        \cup (IF kind = <<"'">> THEN {<<"'","'">>, <<"\"">>, <<"*","/">>} ELSE {})
        \cup (IF kind = <<"\"">> THEN {<<"\"","\"">>, <<"'">>, <<"*","/">>} ELSE {})
        \cup (IF kind = <<"/","*">> THEN {<<"'">>, <<"\"">>, <<"*">>} ELSE {})

\* Bound on the number of fragments after the opening delimiter.
MaxOpenFrags == 2

InitTotal ==
    /\ ServerIdle
    /\ \E d \in Dialects :
          \/ \E q \in Concats(IdemFrags, MaxTotalFrags) : Fresh(d, q, NoShape)
          \/ \E pre \in OpenPres, kind \in OpenKinds :
             \E body \in Concats(OpenFrags(kind), MaxOpenFrags) :
                Fresh(d, pre \o kind \o body,
                      [family |-> "open", pre |-> pre, mid |-> kind,
                       post |-> body, owner |-> d])

SpecTotal == InitTotal /\ [][NextAdapter]_vars

(***************************************************************************)
(* Inputs of raw-text matching: a forbidden pattern or function call of    *)
(* one dialect, in the open, inside a string literal or inside a comment.  *)
(***************************************************************************)
\* The clause shapes of each dialect, beside its function calls.
ClauseShapes(d) ==
    CASE d = MySQL ->
            {<<"I","N","T","O">> \o Spaces(n) \o w :
                n \in 1..(MaxCallSpaces + 1),
                w \in {<<"O","U","T","F","I","L","E"," ","'","f","'">>, <<"D","U","M","P","F","I","L","E"," ","'","f","'">>, <<"@","v">>}}
      [] d = Postgres ->
            {<<"C","O","P","Y">> \o Spaces(n) \o w :
                n \in 1..(MaxCallSpaces + 1), w \in {<<"t"," ","T","O"," ","x">>, <<"t"," ","F","R","O","M"," ","x">>}}
      [] d = SQLite -> {}

RawShapes(d) ==
    Calls(ForbiddenFunctions(d)) \cup ClauseShapes(d)
        \cup {ToLower(c) : c \in ClauseShapes(d)}

RawPres == {<<"S","E","L","E","C","T"," ">>, <<"S","E","L","E","C","T"," ","a",",">>}

\* Where the shape stands: in the open, in a literal, in a comment.
RawPlaces == {"open", "literal", "line comment", "block comment"}

RawPlaced(place, x) ==
    CASE place = "open"          -> x
      [] place = "literal"       -> <<"'">> \o x \o <<"'">>
      [] place = "line comment"  -> <<"-","-"," ">> \o x
      [] place = "block comment" -> <<"/","*"," ">> \o x \o <<" ","*","/">>

InitRaw ==
    /\ ServerIdle
    /\ \E d \in Dialects, o \in Dialects :
       \E pre \in RawPres, place \in RawPlaces, x \in RawShapes(o) :
          Fresh(d, pre \o RawPlaced(place, x),
                [family |-> "raw", pre |-> pre, mid |-> x,
                 post |-> place, owner |-> o])

SpecRaw == InitRaw /\ [][NextAdapter]_vars

(***************************************************************************)
(* Inputs of the quoted spans: SELECT, one double-quoted, backtick or      *)
(* bracket span, and a suffix.                                             *)
(***************************************************************************)
SpanKinds == {"double quote", "backtick", "bracket"}

SpanOpen(kind) ==
    CASE kind = "double quote" -> <<"\"">>
      [] kind = "backtick"     -> <<BT>>
      [] kind = "bracket"      -> <<"[">>

SpanClose(kind) ==
    CASE kind = "double quote" -> <<"\"">>
      [] kind = "backtick"     -> <<BT>>
      [] kind = "bracket"      -> <<"]">>

\* Text that does not close a span of the kind.
SpanFrags(kind) ==
    {<<"a">>, <<"D","R","O","P">>, <<";">>, <<" ">>, <<"'">>, <<"-","-">>}
        \cup (IF kind = "double quote" THEN {<<"\"","\"">>} ELSE {})

\* Bound on the number of fragments inside the span.
MaxSpanFrags == 2

SpanPosts == {<<>>, <<" ","F","R","O","M"," ","t">>, <<" ","-","-"," ","x">>}

InitSpan ==
    /\ ServerIdle
    /\ \E d \in Dialects, kind \in SpanKinds, post \in SpanPosts :
       \E body \in Concats(SpanFrags(kind), MaxSpanFrags) :
          Fresh(d, <<"S","E","L","E","C","T"," ">> \o SpanOpen(kind) \o body \o SpanClose(kind) \o post,
                [family |-> "span", pre |-> <<"S","E","L","E","C","T"," ">>, mid |-> body,
                 post |-> post, owner |-> kind])

SpecSpan == InitSpan /\ [][NextAdapter]_vars

(***************************************************************************)
(* Inputs of Postgres dollar quoting: SELECT, an opening tag, a body       *)
(* without '$', then the same tag, another tag or nothing, and a suffix.   *)
(***************************************************************************)
DollarTags == {<<>>, <<"a">>, <<"f","n">>}

DollarTag(name) == <<"$">> \o name \o <<"$">>

DollarFrags == {<<"D","R","O","P">>, <<";">>, <<" ">>, <<"'">>, <<"-","-">>}

\* Bound on the number of fragments in the body.
MaxDollarFrags == 2

DollarCloses == {"same", "other", "none"}

DollarClose(name, close) ==
    CASE close = "same"  -> DollarTag(name)
      [] close = "other" -> <<"$","b","$">>
      [] close = "none"  -> <<>>

DollarPosts == {<<>>, <<" ","F","R","O","M"," ","t">>}

InitDollar ==
    /\ ServerIdle
    /\ \E d \in Dialects, name \in DollarTags, close \in DollarCloses,
          post \in DollarPosts :
       \E body \in Concats(DollarFrags, MaxDollarFrags) :
          Fresh(d, <<"S","E","L","E","C","T"," ">> \o DollarTag(name) \o body \o DollarClose(name, close) \o post,
                [family |-> "dollar", pre |-> <<"S","E","L","E","C","T"," ">>, mid |-> body,
                 post |-> post, owner |-> close])

SpecDollar == InitDollar /\ [][NextAdapter]_vars

(***************************************************************************)
(* Inputs of the calls running side by side: queries that are allowed,     *)
(* that break a common rule, and that break a dialect rule.                *)
(***************************************************************************)
ConcurrentQueries ==
    { <<"S","E","L","E","C","T"," ","1">>,
      <<"S","E","L","E","C","T"," ","D","R","O","P">>,
      <<"S","H","O","W"," ","G","R","A","N","T","S",";"," ","x">>,
      <<"S","E","L","E","C","T"," ","S","L","E","E","P","(","1",")">>,
      <<"E","X","P","L","A","I","N"," ","P","R","A","G","M","A"," ","a"," ","="," ","1">> }

NextConcurrent ==
    \E g \in Goroutines :
        \/ \E d \in Dialects, q \in ConcurrentQueries : CallValidateQuery(g, d, q)
        \/ ReturnValidateQuery(g)
        \/ DropResult(g)

InitConcurrent == AdapterIdle /\ ServerIdle

SpecConcurrent == InitConcurrent /\ [][NextConcurrent]_vars

(***************************************************************************)
(* The connection pool of the server: NewMCPServer / NewMySQLMCPServer     *)
(* open the *sql.DB, ping it and run the read-only statement once with     *)
(* db.ExecContext; user queries run with db.QueryContext on whatever       *)
(* connection the pool hands out.                                          *)
(***************************************************************************)
\* Bound on the number of connections the pool dials over a run.
MaxDials == 4

\* The statement of adapter.EnforceReadOnly.
EnforceReadOnlyStmt(d) ==
    CASE d = MySQL    -> "SET SESSION TRANSACTION READ ONLY"
      [] d = Postgres -> "SET SESSION CHARACTERISTICS AS TRANSACTION READ ONLY"
      [] d = SQLite   -> "PRAGMA query_only = ON"

\* A connection the pool has just dialed: its session has the defaults.
DialedConn == [open |-> TRUE, session |-> "default"]

notPool == <<adapterVars, serverVars, sharedVars, dsnVars, fetchVars, scanVars, rpcVars, runVars>>

\* The constructor after sql.Open: PingContext dials the first connection;
\* the read-only statement runs on that connection, and an error of it is
\* logged as a warning only.
Construct(type, d, pingOk, enforceOk) ==
    /\ server.state = "none"
    /\ IF ~pingOk
       THEN /\ server' = [type |-> type, adapter |-> d, state |-> "failed"]
            /\ UNCHANGED <<conns, warnings>>
       ELSE /\ server' = [type |-> type, adapter |-> d, state |-> "running"]
            /\ conns' = << IF enforceOk
                           THEN [DialedConn EXCEPT !.session = EnforceReadOnlyStmt(d)]
                           ELSE DialedConn >>
            /\ warnings' = IF enforceOk THEN 0 ELSE 1
    /\ UNCHANGED <<queriedOn, notPool>>

\* NewMCPServer(ctx, adapter, dsn)
NewMCPServer(d, pingOk, enforceOk) == Construct("MCPServer", d, pingOk, enforceOk)

\* NewMySQLMCPServer(ctx, dsn)
NewMySQLMCPServer(pingOk, enforceOk) == Construct("MySQLMCPServer", MySQL, pingOk, enforceOk)

\* SetConnMaxLifetime(time.Hour), or a broken connection: the pool closes
\* a connection it holds.
ConnExpires(c) ==
    /\ server.state = "running"
    /\ c \in DOMAIN conns
    /\ conns[c].open
    /\ conns' = [conns EXCEPT ![c].open = FALSE]
    /\ UNCHANGED <<server, queriedOn, warnings, notPool>>

\* s.db.QueryContext(ctx, sqlQuery) of executeQuery: the pool hands out a
\* free connection, or dials a new one when it holds none.
UserQuery ==
    /\ server.state = "running"
    /\ \/ \E c \in DOMAIN conns :
            /\ conns[c].open
            /\ queriedOn' = queriedOn \cup {c}
            /\ UNCHANGED conns
       \/ /\ \A c \in DOMAIN conns : ~conns[c].open
          /\ Len(conns) < MaxDials
          /\ conns' = Append(conns, DialedConn)
          /\ queriedOn' = queriedOn \cup {Len(conns) + 1}
    /\ UNCHANGED <<server, warnings, notPool>>

NextPool ==
    \/ \E d \in Dialects, pingOk \in BOOLEAN, enforceOk \in BOOLEAN :
          NewMCPServer(d, pingOk, enforceOk)
    \/ \E pingOk \in BOOLEAN, enforceOk \in BOOLEAN : NewMySQLMCPServer(pingOk, enforceOk)
    \/ \E c \in 1..MaxDials : ConnExpires(c)
    \/ UserQuery

InitPool == AdapterIdle /\ ServerIdle

SpecPool == InitPool /\ [][NextPool]_vars

(***************************************************************************)
(* SQLiteAdapter.BuildDSN over values of MCP_SQLITE_PATH                   *)
(***************************************************************************)
ErrMissingSqlitePath == <<"missing required environment variable: MCP_SQLITE_PATH">>

\* The two return values of BuildDSN for the value dbPath of the
\* environment variable.
BuildDSN(dbPath) ==
    IF dbPath = <<>> THEN [dsn |-> <<>>, err |-> ErrMissingSqlitePath]
    ELSE IF ~Contains(dbPath, <<"?">>) THEN [dsn |-> dbPath \o <<"?","m","o","d","e","=","r","o">>, err |-> Nil]
    ELSE IF ~Contains(dbPath, <<"m","o","d","e","=">>) THEN [dsn |-> dbPath \o <<"&","m","o","d","e","=","r","o">>, err |-> Nil]
    ELSE [dsn |-> dbPath, err |-> Nil]

PathFrags == {<<"d","b">>, <<"?">>, <<"&">>, <<"m","o","d","e","=","r","o">>, <<"m","o","d","e","=","r","w">>, <<"a","=","1">>}

\* Bound on the number of fragments in a value of MCP_SQLITE_PATH.
MaxPathFrags == 3

notDsn == <<adapterVars, serverVars, sharedVars, poolVars, fetchVars, scanVars, rpcVars, runVars>>

\* a.BuildDSN() with os.Getenv("MCP_SQLITE_PATH") = dbPath
CallBuildDSN(dbPath) ==
    /\ dsnErr = NoDsnYet
    /\ sqlitePath' = dbPath
    /\ dsn' = BuildDSN(dbPath).dsn
    /\ dsnErr' = BuildDSN(dbPath).err
    /\ UNCHANGED notDsn

NextDsn == \E dbPath \in Concats(PathFrags, MaxPathFrags) : CallBuildDSN(dbPath)

InitDsn == AdapterIdle /\ ServerIdle

SpecDsn == InitDsn /\ [][NextDsn]_vars

(***************************************************************************)
(* The row loop of executeQuery (handlers.go:119-176) over result sets of  *)
(* a few rows, with a scan error or an iteration error at a chosen row.    *)
(***************************************************************************)
\* MaxResultRows of the program is 10000; the model reads rows up to a
\* small limit.
MaxResultRows == 2

\* Bound on the number of rows a result set holds.
MaxSetRows == 4

DataRow == "row"
WarningRow == "_warning"

notFetch == <<adapterVars, serverVars, sharedVars, poolVars, dsnVars, scanVars, rpcVars, runVars>>

\* rows, err := s.db.QueryContext(...) returned a result set of n rows;
\* rows.Scan fails at row scanFailsAt and rows.Next at row nextFailsAt
\* (0: never).
QueryReturnsRows(n, scanFailsAt, nextFailsAt) ==
    /\ fetchPc = "idle"
    /\ rowSet' = [rows |-> n, scanFailsAt |-> scanFailsAt,
                  nextFailsAt |-> nextFailsAt, read |-> 0]
    /\ fetchPc' = "loop"
    /\ results' = <<>>
    /\ rowCount' = 0
    /\ fetched' = NothingFetched
    /\ UNCHANGED notFetch

\* rows.Next() would return true: a further row exists and the driver
\* does not fail on it.
RowsNext == rowSet.read < rowSet.rows /\ rowSet.nextFailsAt # rowSet.read + 1

\* rows.Err() after the loop.
RowsErr == rowSet.read < rowSet.rows /\ rowSet.nextFailsAt = rowSet.read + 1

\* The loop with the limit tested as rowCount > MaxResultRows.
FetchRowOneMore ==
    /\ fetchPc = "loop"
    /\ IF ~RowsNext
       THEN /\ fetchPc' = "after"
            /\ UNCHANGED <<rowSet, results, rowCount, fetched>>
       ELSE IF rowCount > MaxResultRows
       THEN /\ results' = Append(results, WarningRow)
            /\ fetchPc' = "after"
            /\ UNCHANGED <<rowSet, rowCount, fetched>>
       ELSE IF rowSet.scanFailsAt = rowSet.read + 1
       THEN /\ fetched' = [IsError |-> TRUE, Rows |-> <<>>]
            /\ fetchPc' = "returned"
            /\ rowSet' = [rowSet EXCEPT !.read = @ + 1]
            /\ UNCHANGED <<results, rowCount>>
       ELSE /\ results' = Append(results, DataRow)
            /\ rowCount' = rowCount + 1
            /\ rowSet' = [rowSet EXCEPT !.read = @ + 1]
            /\ UNCHANGED <<fetchPc, fetched>>
    /\ UNCHANGED notFetch

\* One pass of: for rows.Next() { ... }
FetchRow ==
    /\ fetchPc = "loop"
    /\ IF ~RowsNext
       THEN /\ fetchPc' = "after"
            /\ UNCHANGED <<rowSet, results, rowCount, fetched>>
       ELSE IF rowCount >= MaxResultRows
       THEN /\ results' = Append(results, WarningRow)
            /\ fetchPc' = "after"
            /\ UNCHANGED <<rowSet, rowCount, fetched>>
       ELSE IF rowSet.scanFailsAt = rowSet.read + 1
       THEN /\ fetched' = [IsError |-> TRUE, Rows |-> <<>>]
            /\ fetchPc' = "returned"
            /\ rowSet' = [rowSet EXCEPT !.read = @ + 1]
            /\ UNCHANGED <<results, rowCount>>
       ELSE /\ results' = Append(results, DataRow)
            /\ rowCount' = rowCount + 1
            /\ rowSet' = [rowSet EXCEPT !.read = @ + 1]
            /\ UNCHANGED <<fetchPc, fetched>>
    /\ UNCHANGED notFetch

\* if err := rows.Err(); err != nil { ... }; json.MarshalIndent(results);
\* return
ReturnRows ==
    /\ fetchPc = "after"
    /\ fetched' = IF RowsErr THEN [IsError |-> TRUE, Rows |-> <<>>]
                  ELSE [IsError |-> FALSE, Rows |-> results]
    /\ fetchPc' = "returned"
    /\ UNCHANGED <<rowSet, results, rowCount, notFetch>>

NextFetch ==
    \/ \E n \in 0..MaxSetRows, scanFailsAt \in 0..MaxSetRows, nextFailsAt \in 0..MaxSetRows :
          QueryReturnsRows(n, scanFailsAt, nextFailsAt)
    \/ FetchRow
    \/ ReturnRows

InitFetch == AdapterIdle /\ ServerIdle

SpecFetch == InitFetch /\ [][NextFetch]_vars

(***************************************************************************)
(* The loop of RemoveStringsAndComments run pass by pass over inputs made  *)
(* of the delimiters of all three dialects.                                *)
(***************************************************************************)
ScanFrags ==
    {<<"a">>, <<"'">>, <<"\"">>, <<"-","-">>, <<"/","*">>, <<"*","/">>, <<"$">>, <<"\n">>, <<"\\">>, <<BT>>, <<"[">>}

\* Bound on the number of fragments in an input of the pass-by-pass scan.
MaxScanFrags == 3

notScan == <<serverVars, sharedVars, poolVars, dsnVars, fetchVars, rpcVars, runVars>>

\* var result strings.Builder; i := 0; n := len(sql)
EnterScan ==
    /\ pc = "new"
    /\ pc' = "scanning"
    /\ cursor' = 1
    /\ builder' = <<>>
    /\ passes' = 0
    /\ consumed' = [k \in 1..Len(sql) |-> 0]
    /\ UNCHANGED <<dialect, sql, shape, cleaned, verdict, recleaned, notScan>>

\* One pass of for i < n { ... }: the branch taken moves i and writes to
\* the builder.
ScanPass ==
    /\ pc = "scanning"
    /\ cursor <= Len(sql)
    /\ LET r == StripStep(dialect, sql, cursor)
       IN  /\ cursor' = r.next
           /\ builder' = builder \o r.out
           /\ consumed' = [k \in 1..Len(sql) |->
                              IF k >= cursor /\ k < r.next
                              THEN consumed[k] + 1 ELSE consumed[k]]
    /\ passes' = passes + 1
    /\ UNCHANGED <<dialect, sql, shape, pc, cleaned, verdict, recleaned, notScan>>

\* return result.String()
ScanReturn ==
    /\ pc = "scanning"
    /\ cursor > Len(sql)
    /\ cleaned' = builder
    /\ pc' = "stripped"
    /\ UNCHANGED <<dialect, sql, shape, verdict, recleaned, scanVars, notScan>>

NextScan == EnterScan \/ ScanPass \/ ScanReturn

InitScan ==
    /\ ServerIdle
    /\ \E d \in Dialects, q \in Concats(ScanFrags, MaxScanFrags) : Fresh(d, q, NoShape)

SpecScan == InitScan /\ [][NextScan]_vars

\* The loop is one sequential function call: it is not suspended for ever
\* while a step of it can be taken.
SpecScanFair == SpecScan /\ WF_vars(NextScan)

(***************************************************************************)
(* Inputs built span by span: plain text, comments, literals and quoted    *)
(* identifiers of the dialect, each with the text the tests expect for it  *)
(* (TestMySQLRemoveStringsAndComments and its Postgres and SQLite twins).  *)
(***************************************************************************)
Copied(t) == [raw |-> t, clean |-> t]
Replaced(t, by) == [raw |-> t, clean |-> by]

\* Spans every dialect reads the same way.  A line comment carries the
\* newline that ends it, a literal the blank that separates it from the
\* next span.
CommonSpans ==
    { Copied(<<"a">>), Copied(<<" ","x","=">>), Copied(<<"1","*","2">>),
      Replaced(<<"-","-","c","'","\n">>, <<" ","\n">>),
      Replaced(<<"/","*","'","-","-","*","/">>, <<" ">>),
      Replaced(<<"/","*","*","/">>, <<" ">>),
      Replaced(<<"'","-","-","'"," ">>, <<"'","'"," ">>),
      Replaced(<<"'","a","'","'","b","'"," ">>, <<"'","'"," ">>) }

DialectSpans(d) ==
    CASE d = MySQL ->
           { Replaced(<<"'","\\","'","'"," ">>, <<"'","'"," ">>),
             Replaced(<<"\"","x","'","\""," ">>, <<"\"","\""," ">>),
             Replaced(<<"#","c","\n">>, <<" ","\n">>),
             Copied(<<BT>> \o <<"x","-","-">> \o <<BT>>) }
      [] d = Postgres ->
           { Replaced(<<"$","t","$","'",";","$","t","$">>, <<"'","'">>),
             Replaced(<<"$","$","a","$","$">>, <<"'","'">>),
             Copied(<<"\"","x","'","-","-","\"">>),
             Copied(<<"#">>) }
      [] d = SQLite ->
           { Copied(<<"\"","x","'","-","-","\"">>),
             Copied(<<"[","a","'","b","]">>),
             Copied(<<BT>> \o <<"x","-","-">> \o <<BT>>),
             Copied(<<"#">>) }

\* Spans that run to the end of the input.
TailSpans ==
    { Copied(<<>>), Replaced(<<"-","-","e","n","d">>, <<" ">>), Replaced(<<"/","*","o","p","e","n">>, <<" ">>),
      Replaced(<<"'","o","p","e","n">>, <<"'","'">>) }

\* Bound on the number of spans before the tail.
MaxCleanedSpans == 2

\* The inputs of at most n spans, each with its expected cleaned text.
RECURSIVE SpanSeqs(_, _)
SpanSeqs(S, n) ==
    IF n = 0 THEN {Copied(<<>>)}
    ELSE LET shorter == SpanSeqs(S, n - 1)
         IN  shorter \cup {[raw |-> f.raw \o b.raw, clean |-> f.clean \o b.clean] :
                              f \in S, b \in shorter}

InitCleaned ==
    /\ ServerIdle
    /\ \E d \in Dialects :
       \E body \in SpanSeqs(CommonSpans \cup DialectSpans(d), MaxCleanedSpans), tail \in TailSpans :
          Fresh(d, body.raw \o tail.raw,
                [family |-> "spans", pre |-> body.raw, mid |-> body.clean \o tail.clean,
                 post |-> tail.raw, owner |-> d])

SpecCleaned == InitCleaned /\ [][NextAdapter]_vars

(***************************************************************************)
(* Inputs of statement stacking: SELECT 1, then a second statement in the  *)
(* open, in a literal, in a comment, or between two dollar tags.           *)
(***************************************************************************)
StackedStatements == {<<";"," ","x"," ">>, <<";"," ","D","R","O","P"," ","T","A","B","L","E"," ","t"," ">>}

\* Tags made of letters, digits and underscores, the empty tag included.
IdentifierTags == {<<>>, <<"t">>, <<"t","_","1">>}

\* Text between two '$' that is no identifier.
OtherTags == {<<" ">>, <<"-">>, <<"a"," ","b">>}

StackPlaces == {"open", "literal", "line comment", "block comment"}

StackPlaced(place, x) ==
    CASE place = "open"          -> x
      [] place = "literal"       -> <<"'">> \o x \o <<"'">>
      [] place = "line comment"  -> <<"-","-">> \o x
      [] place = "block comment" -> <<"/","*">> \o x \o <<"*","/">>

InitStack ==
    /\ ServerIdle
    /\ \E d \in Dialects, x \in StackedStatements :
          \/ \E place \in StackPlaces :
                Fresh(d, <<"S","E","L","E","C","T"," ","1"," ">> \o StackPlaced(place, x),
                      [family |-> "stack", pre |-> <<"S","E","L","E","C","T"," ","1"," ">>, mid |-> x,
                       post |-> <<>>, owner |-> place])
          \/ \E tag \in IdentifierTags \cup OtherTags :
                Fresh(d, <<"S","E","L","E","C","T"," ","1"," ">> \o DollarTag(tag) \o x \o DollarTag(tag),
                      [family |-> "stack", pre |-> <<"S","E","L","E","C","T"," ","1"," ">>, mid |-> x,
                       post |-> tag,
                       owner |-> IF tag \in IdentifierTags
                                 THEN "identifier tag" ELSE "other tag"])

SpecStack == InitStack /\ [][NextAdapter]_vars

(***************************************************************************)
(* Inputs of the SET rule: heads that pass or fail the prefix rule, or     *)
(* that the stripper removes, followed by SET, ';' and filler.             *)
(***************************************************************************)
SetHeads == {<<>>, <<"S","E","L","E","C","T"," ">>, <<"S","E","L","E","C","T">>, <<"D","E","S","C"," ">>, <<"/","*","c","*","/">>, <<"'","'">>, <<"\t">>}

SetFrags == {<<"S","E","T">>, <<"s","e","t"," ">>, <<";">>, <<" ">>, <<"x">>, <<"\n">>, <<"-","-","c","\n">>, <<"'","a","'">>, <<"1">>}

\* Bound on the number of fragments after the head.
MaxSetFrags == 3

InitSet ==
    /\ ServerIdle
    /\ \E d \in Dialects, h \in SetHeads :
       \E t \in Concats(SetFrags, MaxSetFrags) : Fresh(d, h \o t, NoShape)

SpecSet == InitSet /\ [][NextAdapter]_vars

(***************************************************************************)
(* The legacy validator next to MySQLAdapter.ValidateQuery: one query      *)
(* given to both, over inputs that touch every group of rules.             *)
(***************************************************************************)
\* validateReadOnlyQuery(sql) for the query the adapter has validated.
ValidateLegacy ==
    /\ pc = "validated"
    /\ valErr' = validateReadOnlyQuery(sql)
    /\ pc' = "compared"
    /\ UNCHANGED <<dialect, sql, shape, cleaned, verdict, recleaned,
                   args, dbQueries, result, rpcErr, calls, sharedVars, runtimeVars>>

NextCompare == Strip \/ Validate \/ ValidateLegacy

CompareHeads == {<<>>, <<" ">>, <<"S","E","L","E","C","T"," ">>, <<"S","H","O","W"," ">>, <<"D","R","O","P"," ">>}

CompareFrags ==
    {<<"1">>, <<" ">>, <<";">>, <<"D","R","O","P"," ">>, <<"R","E","N","A","M","E"," ">>, <<"c","a","l","l">>, <<"S","L","E","E","P","(","1",")"," ">>,
     <<"I","N","T","O"," ","O","U","T","F","I","L","E"," ">>, <<"S","E","T"," ">>, <<"'","x","'">>, <<"-","-","c","\n">>}

\* Bound on the number of fragments after the head.
MaxCompareFrags == 3

InitCompare ==
    /\ ServerIdle
    /\ \E h \in CompareHeads :
       \E t \in Concats(CompareFrags, MaxCompareFrags) : Fresh(MySQL, h \o t, NoShape)

SpecCompare == InitCompare /\ [][NextCompare]_vars

(***************************************************************************)
(* handleMessage and handleRequest of MCPServer and MySQLMCPServer (the    *)
(* two are the same code): one line in, at most one response out.          *)
(***************************************************************************)
ParseError == -32700
InvalidRequest == -32600
MethodNotFound == -32601
InvalidParams == -32602
InternalError == -32603

\* What each method's handler can return: NoError with its result, or the
\* code of the error it returns instead.
HandlerReturns(method) ==
    CASE method = "initialize"     -> {NoError, InvalidParams}
      [] method = "tools/list"     -> {NoError}
      [] method = "tools/call"     -> {NoError, InvalidParams, MethodNotFound}
      [] method = "resources/list" -> {NoError, InternalError}
      [] method = "resources/read" -> {NoError, InvalidParams, InternalError}
      [] OTHER                     -> {NoError}

\* var req JSONRPCRequest, every field at its zero value.
ZeroRequest == [JSONRPC |-> "", ID |-> JNull, Method |-> ""]

\* json.Unmarshal of one member into a string field: a string is stored,
\* null and a missing member leave the field alone, anything else is an
\* UnmarshalTypeError.
StringField(j) == IF j.t = "string" THEN j.v ELSE ""
StringFieldFails(j) == j.t \notin {"string", "null", "absent"}

\* json.Unmarshal(data, &req): err is TRUE for text that is not JSON, for
\* JSON that is not an object or null, and for a member of the wrong type.
Unmarshal(data) ==
    CASE data.form = "null" -> [err |-> FALSE, req |-> ZeroRequest]
      [] data.form = "object" ->
            [err |-> StringFieldFails(data.jsonrpc) \/ StringFieldFails(data.method),
             req |-> [JSONRPC |-> StringField(data.jsonrpc),
                      ID      |-> IF data.id.t = "absent" THEN JNull ELSE data.id,
                      Method  |-> StringField(data.method)]]
      [] OTHER -> [err |-> TRUE, req |-> ZeroRequest]

Response(id, res, code) ==
    [JSONRPC |-> "2.0", ID |-> id, Result |-> res, Error |-> code]

\* handleRequest(req), the handler of the method returning ret: the
\* responses returned, none for nil.
handleRequest(req, ret) ==
    CASE req.Method = "initialized" -> <<>>
      [] req.Method \in {"initialize", "tools/list", "tools/call",
                         "resources/list", "resources/read"} ->
            IF ret = NoError
            THEN <<Response(req.ID, "result", NoError)>>
            ELSE <<Response(req.ID, "nil", ret)>>
      [] req.Method = "ping" -> <<Response(req.ID, "{}", NoError)>>
      [] OTHER -> <<Response(req.ID, "nil", MethodNotFound)>>

\* handleMessage answering a wrong version without the request's id.
handleMessageNilID(data) ==
    LET u == Unmarshal(data)
    IN  IF u.err THEN <<Response(JNull, "nil", ParseError)>>
        ELSE IF u.req.JSONRPC # "2.0"
        THEN <<Response(JNull, "nil", InvalidRequest)>>
        ELSE handleRequest(u.req, data.ret)

\* handleMessage(data).
handleMessage(data) ==
    LET u == Unmarshal(data)
    IN  IF u.err THEN <<Response(JNull, "nil", ParseError)>>
        ELSE IF u.req.JSONRPC # "2.0"
        THEN <<Response(u.req.ID, "nil", InvalidRequest)>>
        ELSE handleRequest(u.req, data.ret)

notRpc == <<adapterVars, serverVars, sharedVars, poolVars, dsnVars, fetchVars, scanVars, runVars>>

\* One call of handleMessage.
HandleMessage(data) ==
    /\ message' = data
    /\ response' = handleMessage(data)
    /\ UNCHANGED notRpc

JsonrpcMembers == {JAbsent, JNull, JString("2.0"), JString("1.0"), JNumber("2")}
IdMembers == {JAbsent, JNull, JNumber("1"), JString("a")}
MethodMembers ==
    {JAbsent, JNumber("5"), JString("")} \cup
    {JString(m) : m \in {"initialize", "initialized", "tools/list", "tools/call",
                         "resources/list", "resources/read", "ping",
                         "notifications/initialized", "tools/drop"}}

\* The lines that are JSON objects, each with a return its method's
\* handler can give.
ObjectLines ==
    {l \in [form : {"object"}, jsonrpc : JsonrpcMembers, id : IdMembers,
            method : MethodMembers,
            ret : {NoError, InvalidParams, MethodNotFound, InternalError}] :
        l.ret \in HandlerReturns(l.method.v)}

\* The lines that are no JSON object.
OtherLines ==
    {Line(f, JAbsent, JAbsent, JAbsent, NoError) : f \in {"malformed", "null", "array"}}

NextMessage == \E data \in ObjectLines \cup OtherLines : HandleMessage(data)

InitMessage == AdapterIdle /\ ServerIdle

SpecMessage == InitMessage /\ [][NextMessage]_vars

(***************************************************************************)
(* Run of MCPServer and MySQLMCPServer (the same code): the read loop over *)
(* standard input, with the cancellation of the server context (the signal *)
(* goroutine of main, or Shutdown) arriving at any point.                  *)
(***************************************************************************)
\* s.ctx.Err() after cancel().
ErrCanceled == <<"context canceled">>
ErrRead == <<"failed to read input: ", "read error">>

notRun == <<adapterVars, serverVars, sharedVars, poolVars, dsnVars, fetchVars, scanVars, rpcVars>>

\* The lines a client sends.
RunLines ==
    {Line("blank", JAbsent, JAbsent, JAbsent, NoError),
     Line("malformed", JAbsent, JAbsent, JAbsent, NoError),
     Line("object", JString("2.0"), JNumber("1"), JString("ping"), NoError),
     Line("object", JString("2.0"), JAbsent, JString("initialized"), NoError),
     Line("object", JString("2.0"), JString("a"), JString("tools/call"), InvalidParams)}

\* How the input ends after its last full line: end of file, text without
\* a newline and then end of file, or a read error.
Endings == {"EOF", "partial line, EOF", "error"}

\* Bound on the number of full lines of one input.
MaxLines == 3

RECURSIVE LineSeqs(_)
LineSeqs(n) ==
    IF n = 0 THEN {<<>>}
    ELSE LineSeqs(n - 1) \cup
         {Append(s, l) : s \in {t \in LineSeqs(n - 1) : Len(t) = n - 1}, l \in RunLines}

\* Run is called: reader := bufio.NewReader(os.Stdin).
StartRun(lines, ending) ==
    /\ runPc = "idle"
    /\ input' = [lines |-> lines, ending |-> ending]
    /\ unread' = lines
    /\ runPc' = "select"
    /\ UNCHANGED <<ctxDone, line, runErr, stdout, sinceCancel, notRun>>

\* cancel() of the server context, by the signal goroutine or Shutdown.
Cancel ==
    /\ runPc \in {"select", "read", "dispatch"}
    /\ ~ctxDone
    /\ ctxDone' = TRUE
    /\ UNCHANGED <<input, unread, runPc, line, runErr, stdout, sinceCancel, notRun>>

\* The top of the loop without the test of the context.
RunSelectNoTest ==
    /\ runPc = "select"
    /\ runPc' = "read"
    /\ UNCHANGED runErr
    /\ UNCHANGED <<input, unread, ctxDone, line, stdout, sinceCancel, notRun>>

\* The select at the top of the loop.
RunSelect ==
    /\ runPc = "select"
    /\ IF ctxDone
       THEN /\ runErr' = ErrCanceled
            /\ runPc' = "returned"
       ELSE /\ runPc' = "read"
            /\ UNCHANGED runErr
    /\ UNCHANGED <<input, unread, ctxDone, line, stdout, sinceCancel, notRun>>

\* reader.ReadString('\n'), the error test, TrimSpace and the blank test.
RunRead ==
    /\ runPc = "read"
    /\ IF unread = <<>>
       THEN /\ runErr' = IF input.ending = "error" THEN ErrRead ELSE Nil
            /\ runPc' = "returned"
            /\ UNCHANGED <<unread, line>>
       ELSE /\ line' = Head(unread)
            /\ unread' = Tail(unread)
            /\ runPc' = IF Head(unread).form = "blank" THEN "select" ELSE "dispatch"
            /\ UNCHANGED runErr
    /\ UNCHANGED <<input, ctxDone, stdout, sinceCancel, notRun>>

\* response := s.handleMessage([]byte(line)), printed when not nil.
RunDispatch ==
    /\ runPc = "dispatch"
    /\ stdout' = stdout \o handleMessage(line)
    /\ sinceCancel' = IF ctxDone THEN sinceCancel + 1 ELSE sinceCancel
    /\ runPc' = "select"
    /\ UNCHANGED <<input, unread, ctxDone, line, runErr, notRun>>

RunStep == RunSelect \/ RunRead \/ RunDispatch

NextRun ==
    \/ \E lines \in LineSeqs(MaxLines) : \E ending \in Endings : StartRun(lines, ending)
    \/ Cancel
    \/ RunStep

InitRun == AdapterIdle /\ ServerIdle

SpecRun == InitRun /\ [][NextRun]_vars

\* The goroutine running Run is scheduled, and a read of an input that has
\* been written to its end returns.
SpecRunFair == SpecRun /\ WF_vars(RunStep)

(***************************************************************************)
(* Claims about the legacy server                                          *)
(***************************************************************************)
\* C1: every query string that reached db.QueryContext, over any sequence
\* of tool calls, is one for which validateReadOnlyQuery returns no error,
\* and a call queries the database only with its own "sql" argument after
\* the validator accepted it.
C1_OnlyValidatedQueriesRun ==
    /\ \A k \in 1..Len(dbQueries) : validateReadOnlyQuery(dbQueries[k]) = Nil
    /\ (calls > 0 /\ ~BadSqlParam(args) /\ validateReadOnlyQuery(args) # Nil)
          => (dbQueries = <<>> \/ dbQueries[Len(dbQueries)] # args)

\* C1 witness: one call ran its query and a later call was rejected.
C1_Witness ==
    /\ Len(dbQueries) = 1
    /\ calls = 2
    /\ valErr = ErrMulti

\* C2: when the validator rejects the query of a call, executeQuery returns
\* a tool result with IsError set whose text is "Query rejected: " followed
\* by the validator's reason, piece for piece, and no JSON-RPC error.
C2_RejectionIsToolError ==
    (calls > 0 /\ ~BadSqlParam(args) /\ validateReadOnlyQuery(args) # Nil)
        => /\ result.IsError = TRUE
           /\ result.Text = <<"Query rejected: ">> \o validateReadOnlyQuery(args)
           /\ rpcErr = Nil

\* C2 witness: a call rejected for a forbidden keyword, the keyword being
\* part of the returned text.
C2_Witness ==
    /\ calls > 0
    /\ result.IsError = TRUE
    /\ result.Text = <<"Query rejected: ", "query contains forbidden keyword: ", "DELETE">>
    /\ rpcErr = Nil

(***************************************************************************)
(* Claims about the prefix rule                                            *)
(***************************************************************************)
AllowedKeywords ==
    { <<"S","E","L","E","C","T">>,
      <<"S","H","O","W">>,
      <<"D","E","S","C","R","I","B","E">>,
      <<"D","E","S","C">>,
      <<"E","X","P","L","A","I","N">> }

\* The white-space-trimmed, case-folded text of the query under validation.
Folded == ToUpper(TrimSpace(sql))

\* The query passed the empty-query rule and the prefix rule.
PrefixRulePassed == verdict # ErrEmpty /\ verdict # ErrPrefix

C4_AsClaimed ==
    pc = "validated" =>
        (PrefixRulePassed <=>
            \/ \E kw \in AllowedKeywords :
                  /\ HasPrefix(Folded, kw)
                  /\ Len(Folded) > Len(kw)
                  /\ Folded[Len(kw) + 1] \in TrimSpaceSet
            \/ Folded \in {<<"D","E","S","C">>, <<"D","E","S","C","R","I","B","E">>})

\* C4 amended: the prefix rule passes exactly when the folded query starts
\* with an allowed keyword followed by a space character (a tab or a
\* newline does not count), or is exactly one of the five bare keywords.
C4_PrefixRule ==
    pc = "validated" =>
        (PrefixRulePassed <=>
            \/ \E kw \in AllowedKeywords : HasPrefix(Folded, kw \o <<" ">>)
            \/ Folded \in AllowedKeywords)

\* C4 witness: a keyword followed by a tab was turned down by the prefix
\* rule.
C4_Witness ==
    /\ pc = "validated"
    /\ HasPrefix(Folded, <<"S","E","L","E","C","T","\t">>)
    /\ verdict = ErrPrefix

(***************************************************************************)
(* Claims about the multi-statement rule                                   *)
(***************************************************************************)
\* The query passes the empty-query and prefix rules, told from its text.
PassesPrefixText ==
    \/ \E kw \in AllowedKeywords : HasPrefix(Folded, kw \o <<" ">>)
    \/ Folded \in AllowedKeywords

\* t has a ';' and something other than white space after the first one.
TextAfterFirstSemicolon(t) ==
    \E k \in 1..Len(t) :
        /\ t[k] = ";"
        /\ \A j \in 1..(k - 1) : t[j] # ";"
        /\ \E j \in (k + 1)..Len(t) : t[j] \notin TrimSpaceSet

\* C5: in every dialect a query that passes the empty and prefix rules is
\* rejected with 'multiple statements are not allowed' whenever its cleaned
\* text has a ';' with text other than white space after the first ';',
\* and is not rejected with that reason when every ';' of the cleaned text
\* is followed by nothing or by white space only.
C5_MultiStatement ==
    (pc = "validated" /\ PassesPrefixText) =>
        (verdict = ErrMulti <=> TextAfterFirstSemicolon(cleaned))

\* C5 witness: Postgres rejected a stacked statement whose cleaned text
\* differs from the raw text.
C5_Witness ==
    /\ pc = "validated"
    /\ dialect = Postgres
    /\ verdict = ErrMulti
    /\ cleaned # sql

(***************************************************************************)
(* Claims about literal-content immunity                                   *)
(***************************************************************************)
\* C6 as stated: for all three dialects and every dangerous keyword or
\* forbidden function call X, SELECT * FROM t WHERE c = 'X' is Allowed.
C6_AsClaimed ==
    (pc = "validated" /\ shape.family = "literal") => verdict = Nil

\* C6: SELECT * FROM t WHERE c = 'X' is Allowed by every dialect when X is
\* a dangerous keyword; when X is a call of a forbidden function it is
\* Allowed by exactly the dialects whose own list does not name the
\* function, because function calls are matched on the raw text.
C6_LiteralImmunity ==
    (pc = "validated" /\ shape.family = "literal") =>
        (verdict = Nil <=> (shape.owner = "keyword" \/ shape.owner # dialect))

\* C6 witness: MySQL rejected a SLEEP call that is the content of a literal.
C6_Witness ==
    /\ pc = "validated"
    /\ shape.family = "literal"
    /\ dialect = MySQL
    /\ shape.mid = <<"s","l","e","e","p","(","1",")">>
    /\ cleaned = <<"S","E","L","E","C","T"," ","*"," ","F","R","O","M"," ","t"," ","W","H","E","R","E"," ","c"," ","="," ","'","'">>
    /\ verdict = ErrFunction("SLEEP()")

(***************************************************************************)
(* Claims about comment-content immunity                                   *)
(***************************************************************************)
\* The query of the state with the content of its comment taken out is
\* allowed by the dialect of the state.
OtherwiseAllowed ==
    ValidateQuery(dialect, CommentQuery(shape.pre, shape.owner, <<>>, shape.post)) = Nil

CommentCase == pc = "validated" /\ shape.family = "comment" /\ OtherwiseAllowed

\* C7 as stated: in every dialect a semicolon or dangerous keyword that
\* occurs only inside the comment of an otherwise allowed query never
\* causes rejection.
C7_AsClaimed == CommentCase => verdict = Nil

\* C7: a semicolon or dangerous keyword inside the comment of an otherwise
\* allowed query causes no rejection, except in Postgres when the comment
\* holds COPY: the COPY ... TO / COPY ... FROM patterns are matched on the
\* raw text, comments included, and then reject the query.
C7_CommentImmunity ==
    CommentCase =>
        \/ verdict = Nil
        \/ /\ dialect = Postgres
           /\ Contains(shape.mid, <<"C","O","P","Y">>)
           /\ verdict \in {ErrPattern("COPY ... TO"), ErrPattern("COPY ... FROM")}

\* C7 witness: a semicolon and DROP inside a MySQL '#' comment, allowed.
C7_Witness ==
    /\ CommentCase
    /\ dialect = MySQL
    /\ shape.owner = "#"
    /\ shape.mid = <<";","D","R","O","P">>
    /\ shape.post = <<" ","F","R","O","M"," ","t">>
    /\ verdict = Nil

(***************************************************************************)
(* Claims about escaped-quote immunity                                     *)
(***************************************************************************)
\* C8: in every dialect a doubled quote inside a single-quoted literal does
\* not end the literal, in MySQL a backslash-escaped quote does not end it
\* either, and in Postgres and SQLite a backslash is an ordinary character
\* of the literal; the whole literal becomes one placeholder and the text
\* after its closing quote is stripped as it would be on its own.
C8_EscapedQuote ==
    (pc \in {"stripped", "validated"} /\ shape.family = "quote") =>
        cleaned = shape.pre \o Placeholder \o RemoveStringsAndComments(dialect, shape.post)

\* C8 witness: a MySQL literal holding a doubled quote and a backslash
\* escaped quote, followed by a second statement that stays visible.
C8_Witness ==
    /\ pc = "stripped"
    /\ shape.family = "quote"
    /\ dialect = MySQL
    /\ shape.mid = <<"'","'","\\","'">>
    /\ shape.post = <<";"," ","D","R","O","P">>
    /\ cleaned = <<"S","E","L","E","C","T"," ","'","'",";"," ","D","R","O","P">>

(***************************************************************************)
(* Claims about the '#' line comment                                       *)
(***************************************************************************)
HashCase == pc \in {"stripped", "validated"} /\ shape.family = "hash"

\* The MySQL stripper blanks the '#' and the rest of its line.
HashIsComment ==
    cleaned = shape.pre \o <<" ">> \o RemoveStringsAndComments(dialect, shape.post)

\* C9 as stated: '#' starts a line comment, stripped to one space up to the
\* end of the line, in the MySQL stripper only; the Postgres and SQLite
\* strippers copy '#' and the text after it through unchanged.
C9_AsClaimed ==
    HashCase => IF dialect = MySQL THEN HashIsComment ELSE cleaned = sql

\* C9: '#' starts a line comment, stripped to one space up to the end of
\* the line, in the MySQL stripper only; the Postgres and SQLite strippers
\* copy the '#' itself and go on scanning the text after it, so literals
\* and comments in that text are still replaced.
C9_HashComment ==
    HashCase =>
        IF dialect = MySQL THEN HashIsComment
        ELSE cleaned = shape.pre \o <<"#">>
                         \o RemoveStringsAndComments(dialect, shape.mid \o shape.post)

\* C9 witness: Postgres kept the '#' and blanked the '--' comment after it.
C9_Witness ==
    /\ HashCase
    /\ dialect = Postgres
    /\ shape.mid = <<"-","-">>
    /\ sql = <<"S","E","L","E","C","T"," ","#","-","-","\n","F","R","O","M"," ","t">>
    /\ cleaned = <<"S","E","L","E","C","T"," ","#"," ","\n","F","R","O","M"," ","t">>

(***************************************************************************)
(* Claims about the blocking-function lists                                *)
(***************************************************************************)
\* C10: a call of a function of the MySQL blocking list in an otherwise
\* allowed query is rejected by the MySQL validator and allowed by the
\* Postgres and SQLite validators, and a call of a function of the Postgres
\* list is rejected by the Postgres validator and allowed by the MySQL and
\* SQLite validators.
C10_NoCrossDialectLeak ==
    (pc = "validated" /\ shape.family = "dos") =>
        IF dialect = shape.owner
        THEN Len(verdict) = 2 /\ verdict[1] = "query contains forbidden function: "
        ELSE verdict = Nil

\* C10 witness: the SQLite validator allowed a call of pg_sleep, a function
\* of the Postgres list.
C10_Witness ==
    /\ pc = "validated"
    /\ shape.family = "dos"
    /\ dialect = SQLite
    /\ shape.owner = Postgres
    /\ sql = <<"S","E","L","E","C","T"," ","a",",","p","g","_","s","l","e","e","p","\n","(","1",")">>
    /\ verdict = Nil

(***************************************************************************)
(* Claims about the pragma rule                                            *)
(***************************************************************************)
\* A query of the pragma family that is a PRAGMA statement, given to the
\* SQLite validator.
PragmaStatement ==
    /\ pc = "validated"
    /\ shape.family = "pragma"
    /\ dialect = SQLite
    /\ ToUpper(shape.pre) = <<"P","R","A","G","M","A"," ">>

\* C11 as stated: the SQLite validator rejects PRAGMA journal_mode = WAL
\* and allows PRAGMA table_info('t'); a PRAGMA with '= value' is rejected
\* and a read PRAGMA without '=' is permitted.
C11_AsClaimed ==
    PragmaStatement => (verdict = Nil <=> ~Contains(shape.post, <<"=">>))

\* C11 witness: the SQLite validator rejected the read pragma
\* PRAGMA table_info('t') by the prefix rule.
C11_Witness ==
    /\ PragmaStatement
    /\ sql = <<"P","R","A","G","M","A"," ","t","a","b","l","e","_","i","n","f","o","(","'","t","'",")">>
    /\ verdict = ErrPrefix

(***************************************************************************)
(* Claims about idempotence of stripping                                   *)
(***************************************************************************)
\* C12 as stated: for every dialect and every input q,
\* strip(strip(q)) = strip(q).
C12_AsClaimed == pc = "restripped" => recleaned = cleaned

\* C12: strip(strip(q)) = strip(q) for every input in MySQL and SQLite, and
\* in Postgres for every input without a '$'; with dollar quoting a
\* placeholder can land next to another quote and the second pass merges
\* them.
C12_Idempotent ==
    (pc = "restripped" /\ (dialect = Postgres => ~Contains(sql, <<"$">>)))
        => recleaned = cleaned

\* C12 witness: a MySQL literal was stripped to its placeholder and the
\* second pass left the placeholder as it was.
C12_Witness ==
    /\ pc = "restripped"
    /\ dialect = MySQL
    /\ sql = <<"'","a","'">>
    /\ cleaned = Placeholder
    /\ recleaned = cleaned

(***************************************************************************)
(* Claims about the common keyword rule                                    *)
(***************************************************************************)
\* The nine shared keywords, in the order the rule tries them.
SharedKeywords ==
    <<<<"I","N","S","E","R","T">>, <<"U","P","D","A","T","E">>, <<"D","E","L","E","T","E">>, <<"D","R","O","P">>, <<"C","R","E","A","T","E">>, <<"A","L","T","E","R">>,
      <<"T","R","U","N","C","A","T","E">>, <<"G","R","A","N","T">>, <<"R","E","V","O","K","E">>>>

\* The reason 'forbidden keyword: K' of the k-th shared keyword.
SharedKeywordNames ==
    <<"INSERT", "UPDATE", "DELETE", "DROP", "CREATE", "ALTER", "TRUNCATE",
      "GRANT", "REVOKE">>

SharedReason(k) == <<"query contains forbidden keyword: ", SharedKeywordNames[k]>>

\* t holds w in any letter case with no character of inner on either side.
BoundedOccurrence(t, w, inner) ==
    \E p \in 1..(Len(t) - Len(w) + 1) :
        /\ \A j \in 1..Len(w) : ToUpperChar(t[p + j - 1]) = w[j]
        /\ (p = 1 \/ t[p - 1] \notin inner)
        /\ (p + Len(w) > Len(t) \/ t[p + Len(w)] \notin inner)

\* The characters of an SQL identifier, and those of the rule's class.
SqlIdentChars == LowerSet \cup UpperSet \cup DigitSet \cup {"_"}
LetterOrUnderscore == LowerSet \cup UpperSet \cup {"_"}

\* The state is a validated query that passed the empty, prefix and
\* multi-statement rules.
PassedEarlierRules ==
    /\ pc = "validated"
    /\ PassesPrefixText
    /\ ~TextAfterFirstSemicolon(cleaned)

BreaksEmpty == \A k \in 1..Len(sql) : sql[k] \in TrimSpaceSet
BreaksPrefix == ~PassesPrefixText
BreaksMulti == TextAfterFirstSemicolon(cleaned)
BreaksKeyword ==
    \E k \in DOMAIN SharedKeywords :
        BoundedOccurrence(cleaned, SharedKeywords[k], LetterOrUnderscore)
BreaksSet == SetMatch(ToUpper(cleaned))

SharedReasons == {SharedReason(k) : k \in DOMAIN SharedKeywords}

CommonReasons == {ErrEmpty, ErrPrefix, ErrMulti, ErrSet} \cup SharedReasons

\* C14: the common rules are tried in the order empty query, allowed
\* prefix, multiple statements, dangerous keyword, SET statement, and the
\* reason is that of the first rule the query breaks; a query that breaks
\* none of them gets no common reason.
C14_FirstFailureWins ==
    pc = "validated" =>
        IF BreaksEmpty THEN verdict = ErrEmpty
        ELSE IF BreaksPrefix THEN verdict = ErrPrefix
        ELSE IF BreaksMulti THEN verdict = ErrMulti
        ELSE IF BreaksKeyword THEN verdict \in SharedReasons
        ELSE IF BreaksSet THEN verdict = ErrSet
        ELSE verdict \notin CommonReasons

\* C14 witness: SELECT 1; DROP TABLE x breaks the multi-statement and the
\* keyword rule and is rejected with the multi-statement reason.
C14_Witness ==
    /\ pc = "validated"
    /\ sql = <<"S","E","L","E","C","T"," ","1",";"," ","D","R","O","P"," ","T","A","B","L","E"," ","x">>
    /\ BreaksMulti
    /\ BreaksKeyword
    /\ verdict = ErrMulti

(***************************************************************************)
(* Claims about the order of the dialect layers                            *)
(***************************************************************************)
PassesCommon ==
    ~BreaksEmpty /\ ~BreaksPrefix /\ ~BreaksMulti /\ ~BreaksKeyword /\ ~BreaksSet

\* What each layer of the dialect of the state reacts to.
LayerPattern ==
    CASE dialect = MySQL    -> MySQLForbiddenPattern(ToUpper(sql)) # <<>>
      [] dialect = Postgres -> PostgresForbiddenPattern(ToUpper(sql)) # <<>>
      [] dialect = SQLite   -> FirstFunc(ToUpper(sql), SQLiteForbiddenPatterns) # 0

LayerDos ==
    CASE dialect = MySQL    -> FirstFunc(ToUpper(sql), MySQLDosFunctions) # 0
      [] dialect = Postgres -> FirstFunc(ToUpper(sql), PostgresDosFunctions) # 0
      [] dialect = SQLite   -> FALSE

LayerKeyword ==
    CASE dialect = MySQL    -> FirstKeyword(ToUpper(cleaned), MySQLExtraKeywords) # 0
      [] dialect = Postgres -> FirstKeyword(ToUpper(cleaned), PostgresExtraKeywords) # 0
      [] dialect = SQLite   -> FirstKeyword(ToUpper(cleaned), SQLiteExtraKeywords) # 0

LayerPragma == dialect = SQLite /\ PragmaWriteMatch(ToUpper(cleaned))

\* The reason is one only a dialect layer gives.
DialectReason ==
    /\ verdict # Nil
    /\ verdict \notin CommonReasons

\* C15: a dialect reason is reported only for queries that pass every
\* common rule, and for those the reason is that of the first layer that
\* matches in the order forbidden patterns, DoS functions, extra keywords,
\* pragma write.
C15_DialectLayerOrder ==
    pc = "validated" =>
        /\ DialectReason => PassesCommon
        /\ PassesCommon =>
              IF LayerPattern
                  THEN Len(verdict) = 2 /\ verdict[1] = "query contains forbidden pattern: "
              ELSE IF LayerDos
                  THEN Len(verdict) = 2 /\ verdict[1] = "query contains forbidden function: "
              ELSE IF LayerKeyword
                  THEN Len(verdict) = 2 /\ verdict[1] = "query contains forbidden keyword: "
              ELSE IF LayerPragma THEN verdict = ErrPragma
              ELSE verdict = Nil

\* C15 witness: a MySQL query with a DoS function call and an extra
\* keyword, rejected with the reason of the function layer.
C15_Witness ==
    /\ pc = "validated"
    /\ dialect = MySQL
    /\ sql = <<"S","E","L","E","C","T"," ","C","A","L","L"," ","S","L","E","E","P","(","1",")"," ">>
    /\ LayerDos
    /\ LayerKeyword
    /\ verdict = ErrFunction("SLEEP()")

(***************************************************************************)
(* Claims about totality                                                   *)
(***************************************************************************)
\* The cursor positions at which the loop of the stripper runs its body.
RECURSIVE CursorsFrom(_, _, _)
CursorsFrom(d, q, i) ==
    IF i > Len(q) THEN {}
    ELSE {i} \cup CursorsFrom(d, q, StripStep(d, q, i).next)

\* Every pass of the loop reads inside the input and moves the cursor on.
CursorInRange ==
    \A i \in CursorsFrom(dialect, sql, 1) :
        /\ i \in 1..Len(sql)
        /\ StripStep(dialect, sql, i).next > i
        /\ StripStep(dialect, sql, i).next <= Len(sql) + 3

\* The cleaned text is a string made of characters of the input and of the
\* placeholders.
CleanedIsText ==
    \A k \in 1..Len(cleaned) :
        cleaned[k] \in {sql[j] : j \in 1..Len(sql)} \cup {"'", "\"", " "}

\* The verdict is Allowed or Rejected with one of the reasons.
VerdictIsResult ==
    \/ verdict = Nil
    \/ verdict \in CommonReasons \cup {ErrPragma}
    \/ /\ Len(verdict) = 2
       /\ verdict[1] \in {"query contains forbidden keyword: ",
                          "query contains forbidden pattern: ",
                          "query contains forbidden function: "}

IsTotal ==
    /\ pc \in {"stripped", "validated"} => CursorInRange /\ CleanedIsText
    /\ pc = "validated" => VerdictIsResult

OpenCase == pc \in {"stripped", "validated"} /\ shape.family = "open"

\* C16 as stated: stripping and validation never fault, and a single-quoted
\* string, double-quoted span or block comment that is not closed is
\* consumed to the end of the input and replaced by its placeholder.
C16_AsClaimed ==
    /\ IsTotal
    /\ OpenCase =>
          cleaned = shape.pre \o (CASE shape.mid = <<"'">>  -> Placeholder
                                    [] shape.mid = <<"\"">> -> DQPlaceholder
                                    [] OTHER                -> <<" ">>)

\* C16: stripping and validation never fault; a single-quoted string or a
\* block comment that is not closed is consumed to the end of the input and
\* replaced by its placeholder, and so is an unclosed double-quoted span in
\* MySQL, while Postgres and SQLite copy an unclosed double-quoted span
\* through to the end of the input.
C16_Total ==
    /\ IsTotal
    /\ OpenCase =>
          cleaned = shape.pre \o
             (CASE shape.mid = <<"'">>  -> Placeholder
                [] shape.mid = <<"\"">> ->
                      IF dialect = MySQL THEN DQPlaceholder
                      ELSE shape.mid \o shape.post
                [] OTHER                -> <<" ">>)

\* C16 witness: SQLite validated a query that ends inside a block comment
\* holding a quote and DROP.
C16_Witness ==
    /\ pc = "validated"
    /\ shape.family = "open"
    /\ dialect = SQLite
    /\ sql = <<"S","E","L","E","C","T"," ","1",";","/","*","'"," ","D","R","O","P"," ">>
    /\ cleaned = <<"S","E","L","E","C","T"," ","1",";"," ">>
    /\ verdict = Nil

(***************************************************************************)
(* Claims about raw-text matching                                          *)
(***************************************************************************)
\* C17: a query whose raw text holds a forbidden file or privileged I/O
\* pattern or a DoS function call of a dialect, in any letter case, is
\* rejected by that dialect with the reason of that layer wherever the
\* shape stands, inside a string literal or a comment included.
C17_RawMatching ==
    (pc = "validated" /\ shape.family = "raw" /\ dialect = shape.owner) =>
        /\ Len(verdict) = 2
        /\ verdict[1] \in {"query contains forbidden pattern: ",
                           "query contains forbidden function: "}

\* C17 witness: Postgres rejected a lo_import call that stands in a block
\* comment and is gone from the cleaned text.
C17_Witness ==
    /\ pc = "validated"
    /\ shape.family = "raw"
    /\ dialect = Postgres
    /\ sql = <<"S","E","L","E","C","T"," ","a",",","/","*"," ","l","o","_","i","m","p","o","r","t","(","1",")"," ","*","/">>
    /\ cleaned = <<"S","E","L","E","C","T"," ","a",","," ">>
    /\ verdict = ErrPattern("lo_import()")

(***************************************************************************)
(* Claims about double-quoted, backtick and bracket spans                  *)
(***************************************************************************)
SpanCase == pc \in {"stripped", "validated"} /\ shape.family = "span"

\* The span of the state as it stands in the input.
SpanText == SpanOpen(shape.owner) \o shape.mid \o SpanClose(shape.owner)

\* The span is replaced by the double-quote placeholder.
SpanReplaced ==
    cleaned = shape.pre \o DQPlaceholder \o RemoveStringsAndComments(dialect, shape.post)

\* The span is copied through unchanged.
SpanCopied ==
    cleaned = shape.pre \o SpanText \o RemoveStringsAndComments(dialect, shape.post)

\* C18: the MySQL stripper replaces a double-quoted span by a placeholder,
\* so a keyword or ';' inside it never causes rejection; the Postgres and
\* SQLite strippers copy the span through unchanged, quotes included, so a
\* ';' or a dangerous keyword inside it is still seen by the later checks;
\* backtick spans (MySQL, SQLite) and bracket spans (SQLite) are copied
\* through unchanged.
C18_QuotedSpans ==
    SpanCase =>
        /\ (shape.owner = "double quote" /\ dialect = MySQL) =>
              SpanReplaced /\ (pc = "validated" => verdict = Nil)
        /\ (shape.owner = "double quote" /\ dialect \in {Postgres, SQLite}) =>
              /\ SpanCopied
              /\ (pc = "validated" /\ Contains(shape.mid, <<";">>)) => verdict = ErrMulti
              /\ (pc = "validated" /\ ~Contains(shape.mid, <<";">>)
                    /\ BoundedOccurrence(shape.mid, <<"D","R","O","P">>, LetterOrUnderscore))
                    => verdict = ErrKeyword("DROP")
        /\ (shape.owner = "backtick" /\ dialect \in {MySQL, SQLite}) => SpanCopied
        /\ (shape.owner = "bracket" /\ dialect = SQLite) => SpanCopied

\* C18 witness: Postgres copied "DROP" through and rejected the query for
\* the keyword.
C18_Witness ==
    /\ pc = "validated"
    /\ shape.family = "span"
    /\ dialect = Postgres
    /\ sql = <<"S","E","L","E","C","T"," ","\"","D","R","O","P","\""," ","F","R","O","M"," ","t">>
    /\ cleaned = sql
    /\ verdict = ErrKeyword("DROP")

(***************************************************************************)
(* Claims about Postgres dollar quoting                                    *)
(***************************************************************************)
DollarCase ==
    pc \in {"stripped", "validated"} /\ shape.family = "dollar" /\ dialect = Postgres

\* The input after the '$' that opens the tag.
AfterFirstDollar == Slice(sql, Len(shape.pre) + 2, Len(sql))

\* The body is plain text: no quote and no comment marker of its own.
PlainBody == ~Contains(shape.mid, <<"'">>) /\ ~Contains(shape.mid, <<"-","-">>)

\* C19: in the Postgres stripper a span $tag$ ... $tag$ ($$ ... $$
\* included) becomes one '' placeholder, so nothing inside it reaches the
\* keyword or semicolon rules; a '$' whose tag does not occur again is
\* copied as an ordinary character and the text after it is scanned as
\* usual, so a keyword standing as a word in it is still seen.
C19_DollarQuoting ==
    DollarCase =>
        /\ shape.owner = "same" =>
              /\ cleaned = shape.pre \o Placeholder
                              \o RemoveStringsAndComments(Postgres, shape.post)
              /\ pc = "validated" => verdict = Nil
        /\ shape.owner # "same" =>
              /\ cleaned = shape.pre \o <<"$">>
                              \o RemoveStringsAndComments(Postgres, AfterFirstDollar)
              /\ (pc = "validated" /\ PlainBody
                    /\ BoundedOccurrence(shape.mid, <<"D", "R", "O", "P">>, LetterOrUnderscore)) =>
                    verdict \in {ErrMulti, ErrKeyword("DROP")}

\* C19 witness: a closed $fn$ span holding DROP and ';' was replaced by the
\* placeholder and the query allowed.
C19_Witness ==
    /\ pc = "validated"
    /\ shape.family = "dollar"
    /\ dialect = Postgres
    /\ sql = <<"S","E","L","E","C","T"," ","$","f","n","$","D","R","O","P",";","$","f","n","$"," ","F","R","O","M"," ","t">>
    /\ cleaned = <<"S","E","L","E","C","T"," ","'","'"," ","F","R","O","M"," ","t">>
    /\ verdict = Nil

\* C19 second witness: the tag never occurs again, the '$' is copied and
\* DROP is seen.
C19_WitnessUnclosed ==
    /\ pc = "validated"
    /\ shape.family = "dollar"
    /\ dialect = Postgres
    /\ sql = <<"S","E","L","E","C","T"," ","$","a","$","D","R","O","P"," ","$","b","$">>
    /\ cleaned = sql
    /\ verdict = ErrKeyword("DROP")

(***************************************************************************)
(* Claims about repeated and concurrent validation                         *)
(***************************************************************************)
\* Two calls that have returned and were given the same dialect and query.
SameCall(g, h) ==
    /\ validations[g].pc = "returned"
    /\ validations[h].pc = "returned"
    /\ validations[g].dialect = validations[h].dialect
    /\ validations[g].sqlQuery = validations[h].sqlQuery

C21_AsClaimed ==
    \A c \in queriedOn : conns[c].session = EnforceReadOnlyStmt(server.adapter)

\* C21 witness: the first connection got the read-only statement and was
\* closed, and a user query ran on a second connection that never got it.
C21_Witness ==
    /\ server = [type |-> "MCPServer", adapter |-> Postgres, state |-> "running"]
    /\ warnings = 0
    /\ Len(conns) = 2
    /\ conns[1] = [open |-> FALSE, session |-> EnforceReadOnlyStmt(Postgres)]
    /\ conns[2] = DialedConn
    /\ queriedOn = {2}

(***************************************************************************)
(* Claims about the SQLite DSN                                             *)
(***************************************************************************)
\* The parts of t between the separators sep.
RECURSIVE SplitOn(_, _)
SplitOn(t, sep) ==
    LET k == IndexFrom(t, 1, sep)
    IN  IF k = 0 THEN <<t>>
        ELSE <<Slice(t, 1, k - 1)>> \o SplitOn(Slice(t, k + 1, Len(t)), sep)

\* The parameters of the query string of a DSN: the text after the first
\* '?', cut at every '&'.
QueryParams(d) ==
    LET q == IndexFrom(d, 1, <<"?">>)
    IN  IF q = 0 THEN {}
        ELSE LET parts == SplitOn(Slice(d, q + 1, Len(d)), <<"&">>)
             IN  {parts[k] : k \in DOMAIN parts}

BuildDSNReturned == dsnErr # NoDsnYet

\* C22 as claimed: for every non-empty MCP_SQLITE_PATH BuildDSN returns a
\* DSN whose query string holds the parameter mode=ro; an empty value
\* gives an error and no DSN.
C22_AsClaimed ==
    BuildDSNReturned =>
        /\ sqlitePath # <<>> => dsnErr = Nil /\ <<"m","o","d","e","=","r","o">> \in QueryParams(dsn)
        /\ sqlitePath = <<>> => dsnErr = ErrMissingSqlitePath /\ dsn = <<>>

\* C22 witness: the path db?mode=rw came back unchanged, a read-write DSN.
C22_Witness ==
    /\ sqlitePath = <<"d","b","?","m","o","d","e","=","r","w">>
    /\ dsnErr = Nil
    /\ dsn = sqlitePath

(***************************************************************************)
(* Claims about the row limit                                              *)
(***************************************************************************)
\* The number of elements of t equal to x.
CountOf(t, x) == Cardinality({k \in DOMAIN t : t[k] = x})

\* The driver failed on a row before the loop was over.
FetchFailed == fetched.IsError

ScanInvariant ==
    pc \in {"scanning", "stripped"} =>
        /\ cursor \in 1..(Len(sql) + 3)
        /\ passes <= Len(sql)
        /\ \A k \in 1..Len(sql) : consumed[k] = (IF k < cursor THEN 1 ELSE 0)
        /\ pc = "stripped" =>
              /\ cursor > Len(sql)
              /\ cleaned = RemoveStringsAndComments(dialect, sql)

\* A pass of the loop moves the cursor forward by at least one position.
PassAdvances == passes' = passes + 1 => cursor' >= cursor + 1

\* C24: each stripper is one forward-only scan: every byte of the input is
\* consumed by exactly one pass of the loop, every pass moves the cursor
\* forward by at least one position, the cursor never moves backward, and
\* the scan ends for every input.
C24_ForwardScan ==
    /\ []ScanInvariant
    /\ [][PassAdvances /\ cursor' >= cursor]_vars
    /\ <>(pc = "stripped")

\* C24 witness: the Postgres scan of a line comment, its newline and an
\* unclosed literal is over after three passes for four bytes.
C24_Witness ==
    /\ pc = "stripped"
    /\ dialect = Postgres
    /\ sql = <<"-","-","\n","'">>
    /\ passes = 3
    /\ cursor = Len(sql) + 1
    /\ cleaned = <<" ","\n","'","'">>

(***************************************************************************)
(* Claims about the cleaned text as a whole                                *)
(***************************************************************************)
\* The input holds no comment, quote or dollar delimiter.
NoDelimiter(q) ==
    /\ \A k \in 1..Len(q) : q[k] \notin {"'", "\"", "$", "#", BT, "["}
    /\ ~Contains(q, <<"-", "-">>)
    /\ ~Contains(q, <<"/", "*">>)

\* C25: the cleaned text is the input with every comment span replaced by
\* one space (a line comment ends before its newline, which is kept),
\* every string literal replaced by the empty literal ('' for single-quoted
\* and dollar-quoted spans, "" for a MySQL double-quoted string), and all
\* other characters copied in their order; an input without a comment,
\* quote or dollar delimiter is returned unchanged.
C25_CleanedText ==
    (pc \in {"stripped", "validated"} /\ shape.family = "spans") =>
        /\ cleaned = shape.mid
        /\ NoDelimiter(sql) => cleaned = sql

\* C25 witness: a MySQL input of a literal, a hash comment and an unclosed
\* block comment was cleaned span by span.
C25_Witness ==
    /\ pc = "stripped"
    /\ shape.family = "spans"
    /\ dialect = MySQL
    /\ sql = <<"'","a","'","'","b","'"," ","#","c","\n","/","*","o","p","e","n">>
    /\ cleaned = <<"'","'"," "," ","\n"," ">>

\* C25 second witness: an input without delimiters came back unchanged.
C25_WitnessPlain ==
    /\ pc = "stripped"
    /\ shape.family = "spans"
    /\ sql = <<"a"," ","x","=">>
    /\ NoDelimiter(sql)
    /\ cleaned = sql

(***************************************************************************)
(* Claims about statement stacking in Postgres                             *)
(***************************************************************************)
\* The ';' of the state and the statement after it stand outside every
\* comment, every single-quoted literal and every dollar-quoted span
\* whose tag is an identifier.
StackedInTheOpen == shape.owner \in {"open", "other tag"}

\* C26 as claimed: the Postgres validator rejects every query in which a
\* ';' followed by more text stands outside all comments, single-quoted
\* literals and dollar-quoted spans with an identifier tag.
C26_AsClaimed ==
    (pc = "validated" /\ shape.family = "stack" /\ dialect = Postgres
        /\ StackedInTheOpen) => verdict # Nil

\* C26 witness: SELECT 1 $-$; DROP TABLE t $-$ is allowed by the Postgres
\* validator: the text between the two "$-$" was cleaned to one ''.
C26_Witness ==
    /\ pc = "validated"
    /\ dialect = Postgres
    /\ sql = <<"S","E","L","E","C","T"," ","1"," ","$","-","$",";"," ","D","R","O","P"," ","T","A","B","L","E"," ","t"," ","$","-","$">>
    /\ cleaned = <<"S","E","L","E","C","T"," ","1"," ","'","'">>
    /\ verdict = Nil

(***************************************************************************)
(* Claims about the SET rule                                               *)
(***************************************************************************)
\* C27: the SET rule never fires: a query whose cleaned text matches the
\* SET pattern is rejected by the prefix rule or by the multi-statement
\* rule, and no query is rejected with 'SET statements are not allowed'.
C27_SetRuleNeverFires ==
    pc = "validated" =>
        /\ verdict # ErrSet
        /\ BreaksSet => verdict \in {ErrPrefix, ErrMulti}

\* C27 witness: SELECT 1;SET has a cleaned text that matches the SET
\* pattern and is rejected as multiple statements.
C27_Witness ==
    /\ pc = "validated"
    /\ sql = <<"S","E","L","E","C","T"," ","1",";","S","E","T">>
    /\ BreaksSet
    /\ verdict = ErrMulti

\* C27 second witness: SET x matches the SET pattern and is rejected by
\* the prefix rule.
C27_WitnessPrefix ==
    /\ pc = "validated"
    /\ sql = <<"S","E","T"," ","x">>
    /\ BreaksSet
    /\ verdict = ErrPrefix

(***************************************************************************)
(* Claims about the legacy validator and the MySQL adapter                 *)
(***************************************************************************)
\* C28: validateReadOnlyQuery and MySQLAdapter.ValidateQuery accept the
\* same queries: for every input one returns an error if and only if the
\* other does; the reasons may differ.
C28_SameAcceptance ==
    pc = "compared" => (valErr = Nil <=> verdict = Nil)

\* C28 witness: both reject SELECT DROP SLEEP(1), the legacy validator for
\* the function and the adapter for the keyword.
C28_Witness ==
    /\ pc = "compared"
    /\ dialect = MySQL
    /\ sql = <<"S","E","L","E","C","T"," ","D","R","O","P"," ","S","L","E","E","P","(","1",")"," ">>
    /\ valErr = ErrFunction("SLEEP()")
    /\ verdict = ErrKeyword("DROP")

\* C28 second witness: both accept a query.
C28_WitnessAccepted ==
    /\ pc = "compared"
    /\ sql = <<"S","E","L","E","C","T"," ","1"," ","'","x","'">>
    /\ valErr = Nil
    /\ verdict = Nil

(***************************************************************************)
(* Claims about the JSON-RPC layer                                         *)
(***************************************************************************)
\* The line is a request the decoder accepts: JSON null, or an object whose
\* jsonrpc and method members, where present, are strings or null.
Parseable ==
    \/ message.form = "null"
    \/ /\ message.form = "object"
       /\ message.jsonrpc.t \in {"string", "null", "absent"}
       /\ message.method.t \in {"string", "null", "absent"}

\* The id, version and method the line carries (null and "" when it
\* carries none).
RequestId ==
    IF message.form = "object" /\ message.id.t # "absent" THEN message.id ELSE JNull
RequestVersion ==
    IF message.form = "object" /\ message.jsonrpc.t = "string" THEN message.jsonrpc.v ELSE ""
RequestMethod ==
    IF message.form = "object" /\ message.method.t = "string" THEN message.method.v ELSE ""

KnownMethods ==
    {"initialize", "initialized", "tools/list", "tools/call",
     "resources/list", "resources/read", "ping"}

\* C29: handleMessage answers a parseable 2.0 request whose method is not
\* 'initialized' with exactly one response carrying the request's id
\* (MethodNotFound for an unknown method), the 'initialized' notification
\* with no response, a request of another jsonrpc version with one
\* InvalidRequest response carrying the request's id, and unparseable input
\* with one ParseError response whose id is null.
C29_Correlation ==
    response # NotHandled =>
        /\ (Parseable /\ RequestVersion = "2.0" /\ RequestMethod # "initialized") =>
              /\ Len(response) = 1
              /\ response[1].ID = RequestId
              /\ RequestMethod \notin KnownMethods => response[1].Error = MethodNotFound
        /\ (Parseable /\ RequestVersion = "2.0" /\ RequestMethod = "initialized") =>
              response = <<>>
        /\ (Parseable /\ RequestVersion # "2.0") =>
              /\ Len(response) = 1
              /\ response[1].ID = RequestId
              /\ response[1].Error = InvalidRequest
        /\ ~Parseable =>
              /\ Len(response) = 1
              /\ response[1].ID = JNull
              /\ response[1].Error = ParseError

\* C29 witness: a 1.0 request with id "a" is answered with InvalidRequest
\* and id "a".
C29_Witness ==
    /\ message = Line("object", JString("1.0"), JString("a"), JString("ping"), NoError)
    /\ response = <<Response(JString("a"), "nil", InvalidRequest)>>

\* C29 second witness: an unknown method with id 1.
C29_WitnessUnknown ==
    /\ message = Line("object", JString("2.0"), JNumber("1"), JString("tools/drop"), NoError)
    /\ response = <<Response(JNumber("1"), "nil", MethodNotFound)>>

\* C29 third witness: an object whose method is a number, with an id.
C29_WitnessMistyped ==
    /\ message.form = "object"
    /\ message.method = JNumber("5")
    /\ message.id = JNumber("1")
    /\ response = <<Response(JNull, "nil", ParseError)>>

\* C29 fourth witness: the notification.
C29_WitnessNotification ==
    /\ RequestMethod = "initialized"
    /\ RequestVersion = "2.0"
    /\ response = <<>>

\* The number of lines Run has read, and of those, the ones it is done with.
LinesRead == Len(input.lines) - Len(unread)
LinesDone == IF runPc = "dispatch" THEN LinesRead - 1 ELSE LinesRead

\* What the lines ls put on standard output, in their order: nothing for a
\* blank line, else what handleMessage returns.
RECURSIVE Printed(_)
Printed(ls) ==
    IF ls = <<>> THEN <<>>
    ELSE (IF Head(ls).form = "blank" THEN <<>> ELSE handleMessage(Head(ls)))
         \o Printed(Tail(ls))

\* Lines are taken in arrival order and one at a time; at most one line
\* is dispatched after the cancellation; Run returns nil only at the end of
\* the input and the context's error only after the cancellation.
RunInvariant ==
    /\ unread = SubSeq(input.lines, LinesRead + 1, Len(input.lines))
    /\ runPc = "dispatch" => line = input.lines[LinesRead]
    /\ stdout = Printed(SubSeq(input.lines, 1, LinesDone))
    /\ sinceCancel <= 1
    /\ runPc = "returned" <=> runErr # NotReturned
    /\ runErr = ErrCanceled => ctxDone
    /\ runErr = Nil => unread = <<>> /\ input.ending # "error"
    /\ runErr = ErrRead => unread = <<>> /\ input.ending = "error"

\* A step that returns the context's error starts at the top of the loop;
\* a read at the end of the input returns nil; once the context is
\* cancelled, the top of the loop returns.
RunSteps ==
    /\ runErr' = ErrCanceled /\ runErr # ErrCanceled => runPc = "select"
    /\ (runPc = "read" /\ runPc' # "read" /\ unread = <<>> /\ input.ending # "error") =>
          runErr' = Nil /\ runPc' = "returned"
    /\ (runPc = "select" /\ runPc' # "select" /\ ctxDone) =>
          runErr' = ErrCanceled /\ runPc' = "returned"

\* C30: Run handles the lines one at a time in arrival order and looks at
\* the context only at the top of its loop: after the cancellation at most
\* one further line is dispatched before Run returns the context's error,
\* blank lines print nothing, and the end of the input makes Run return
\* nil; on an input that ends, a cancelled Run returns.
C30_RunLoop ==
    /\ []RunInvariant
    /\ [][RunSteps]_vars
    /\ (ctxDone ~> runPc = "returned")

\* C30 witness: cancelled while a ping was waiting to be dispatched, Run
\* answered it and returned the context's error with a line still unread.
C30_Witness ==
    /\ runPc = "returned"
    /\ runErr = ErrCanceled
    /\ sinceCancel = 1
    /\ Len(unread) = 1
    /\ LinesRead = 2
    /\ input.lines[1].form = "blank"
    /\ stdout = <<Response(JNumber("1"), "{}", NoError)>>

\* C30 second witness: three lines, one of them blank and one the
\* notification, answered with one response before the end of file.
C30_WitnessEOF ==
    /\ runPc = "returned"
    /\ runErr = Nil
    /\ ~ctxDone
    /\ input.ending = "EOF"
    /\ Len(input.lines) = 3
    /\ input.lines[1].form = "blank"
    /\ input.lines[2].method = JString("initialized")
    /\ stdout = <<Response(JNull, "nil", ParseError)>>

====
